---- MODULE Spec2Model ----
(***************************************************************************)
(* Alert aggregate persistence (internal/store/alert_store.go), the        *)
(* validation layer in front of it (internal/service/alert_service.go),    *)
(* the relational schema they run against (sql/schema.sql) and the         *)
(* reconciliation with the remote SLS project (syncService, slsService,    *)
(* SLSHandler).                                                            *)
(*                                                                         *)
(* Conventions.  A Go pointer field is a sequence of length <= 1: <<>> is  *)
(* nil, <<v>> is a pointer to v.  A table is a function from primary key   *)
(* to row.  A database transaction is one atomic step; the gap between a   *)
(* service pre-check and its transaction is a separate step.  A storage    *)
(* error may be injected at any one statement of a transaction (`fault`);  *)
(* constraint violations of the schema arise on their own.  A rolled-back  *)
(* transaction gives back the AUTO_INCREMENT values it took, so that a     *)
(* failed call leaves the whole state, not only the rows, as it was.       *)
(* Spec is the store called directly, SvcSpec two concurrent callers of    *)
(* the service, SyncSpec the reconciliation batches and status calls of    *)
(* one process, DecisionSpec the change decision on its own.               *)
(***************************************************************************)
EXTENDS Integers, Sequences, FiniteSets, TLC

VARIABLES
    db,       \* table name -> (primary key -> row): the committed rows
    seq,      \* table name -> last AUTO_INCREMENT value handed out
    calls,    \* number of calls made so far (store calls in Spec, service calls in SvcSpec)
    last,     \* the outcome of the most recent service/store call
    pc,       \* worker -> position of its service call
    req,      \* worker -> the aggregate descriptor of its call in flight
    sync      \* the reconciliation engine: the batch in progress and what it returned

vars == <<db, seq, calls, last, pc, req, sync>>

(***************************** bounds **************************************)
MaxAlerts == 2
MaxCalls == 3

Workers == {"w1", "w2"}
Names == {"a", "b"}

(***************************** pointers ************************************)
None == <<>>
Some(v) == <<v>>
IsNil(p) == p = <<>>
Deref(p) == p[1]

(***************************** tables **************************************)
BlockTables ==
    [ conditionConfig      |-> "condition_configurations",
      groupConfig          |-> "group_configurations",
      policyConfig         |-> "policy_configurations",
      templateConfig       |-> "template_configurations",
      sinkAlerthubConfig   |-> "sink_alerthub_configurations",
      sinkCmsConfig        |-> "sink_cms_configurations",
      sinkEventStoreConfig |-> "sink_event_store_configurations" ]

\* The sub-blocks in the order CreateWithTransaction, recreateConfiguration and
\* updateConfiguration walk them.
Blocks ==
    << "conditionConfig", "groupConfig", "policyConfig", "templateConfig",
       "sinkAlerthubConfig", "sinkCmsConfig", "sinkEventStoreConfig" >>

\* The foreign-key slot of alert_configurations that refers to a sub-block.
BlockSlot ==
    [ conditionConfig      |-> "conditionConfigID",
      groupConfig          |-> "groupConfigID",
      policyConfig         |-> "policyConfigID",
      templateConfig       |-> "templateConfigID",
      sinkAlerthubConfig   |-> "sinkAlerthubConfigID",
      sinkCmsConfig        |-> "sinkCmsConfigID",
      sinkEventStoreConfig |-> "sinkEventStoreConfigID" ]

Tables ==
    { "alerts", "alert_configurations", "alert_schedules", "alert_tags",
      "alert_queries", "severity_configurations", "join_configurations" }
    \cup { BlockTables[b] : b \in DOMAIN BlockTables }

EmptyDB == [tbl \in Tables |-> << >>]

Rows(d, tbl) == { d[tbl][i] : i \in DOMAIN d[tbl] }

\* A set of primary keys in ascending order.
RECURSIVE SortedIds(_)
SortedIds(S) ==
    IF S = {} THEN << >>
    ELSE LET m == CHOOSE x \in S : \A y \in S : x <= y
         IN  <<m>> \o SortedIds(S \ {m})

Without(f, S) == [i \in DOMAIN f \ S |-> f[i]]

(***************************** input aggregates ****************************)
\* models.ConditionConfiguration and the other sub-block structs, as a caller
\* supplies them (ID zero, owner not yet known).
Condition(c) ==
    [ id |-> 0, alertConfigID |-> 0, condition |-> Some(c), countCondition |-> None ]

Group(f) ==
    [ id |-> 0, alertConfigID |-> 0, fields |-> Some(f), type |-> Some("custom") ]

Policy(p) ==
    [ id |-> 0, alertConfigID |-> 0, actionPolicyId |-> Some(p),
      alertPolicyId |-> Some("ap"), repeatInterval |-> Some("5m") ]

Template(x) ==
    [ id |-> 0, alertConfigID |-> 0, templateId |-> Some(x), lang |-> Some("cn"),
      type |-> Some("sys"), version |-> Some("1"), aonotations |-> None,
      tokens |-> None ]

SinkAlerthub(e) == [ id |-> 0, alertConfigID |-> 0, enabled |-> Some(e) ]

SinkCms(e) == [ id |-> 0, alertConfigID |-> 0, enabled |-> Some(e) ]

SinkEventStore(e) ==
    [ id |-> 0, alertConfigID |-> 0, enabled |-> Some(e), endpoint |-> Some("ep"),
      eventStore |-> Some("es"), project |-> Some("p"), roleArn |-> None ]

Severity(s, eval) ==
    [ id |-> 0, alertConfigID |-> 0, severity |-> Some(s),
      evalConditionID |-> None, evalCondition |-> eval ]

Join(ty) ==
    [ id |-> 0, alertConfigID |-> 0, joinType |-> Some(ty), joinConfig |-> Some("{}") ]

Configuration(ty, blocks, sevs, joins) ==
    [ id |-> 0, alertID |-> 0,
      autoAnnotation |-> Some(TRUE), dashboard |-> Some("dash"), muteUntil |-> None,
      noDataFire |-> Some(FALSE), noDataSeverity |-> None, threshold |-> Some(1),
      type |-> Some(ty), version |-> Some("2.0"), sendResolved |-> Some(FALSE),
      conditionConfigID |-> None, groupConfigID |-> None, policyConfigID |-> None,
      templateConfigID |-> None, sinkAlerthubConfigID |-> None,
      sinkCmsConfigID |-> None, sinkEventStoreConfigID |-> None,
      conditionConfig |-> blocks.conditionConfig,
      groupConfig |-> blocks.groupConfig,
      policyConfig |-> blocks.policyConfig,
      templateConfig |-> blocks.templateConfig,
      sinkAlerthubConfig |-> blocks.sinkAlerthubConfig,
      sinkCmsConfig |-> blocks.sinkCmsConfig,
      sinkEventStoreConfig |-> blocks.sinkEventStoreConfig,
      severityConfigs |-> sevs, joinConfigs |-> joins ]

NoBlocks == [b \in DOMAIN BlockTables |-> None]

AllBlocks ==
    [ conditionConfig      |-> Some(Condition("c1")),
      groupConfig          |-> Some(Group("f1,f2")),
      policyConfig         |-> Some(Policy("p1")),
      templateConfig       |-> Some(Template("t1")),
      sinkAlerthubConfig   |-> Some(SinkAlerthub(TRUE)),
      sinkCmsConfig        |-> Some(SinkCms(FALSE)),
      sinkEventStoreConfig |-> Some(SinkEventStore(TRUE)) ]

Schedule(ty, cron) ==
    [ id |-> 0, alertID |-> 0, cronExpression |-> Some(cron), delay |-> None,
      interval |-> None, runImmediately |-> Some(FALSE), timeZone |-> None,
      type |-> ty ]

Tag(ty, k, v) ==
    [ id |-> 0, alertID |-> 0, tagType |-> ty, tagKey |-> k, tagValue |-> Some(v) ]

Query(q) ==
    [ id |-> 0, alertID |-> 0, chartTitle |-> Some("chart"), dashboardId |-> None,
      end |-> Some("now"), powerSqlMode |-> None, project |-> Some("p"),
      query |-> q, region |-> None, roleArn |-> None, start |-> Some("-5m"),
      store |-> Some("s"), storeType |-> Some("log"), timeSpanType |-> None,
      ui |-> None ]

\* The aggregate bodies a caller may send. "noDisplay" and "badStatus" are the
\* ones validateAlert rejects; "dupTags" violates uk_alert_tag; "retitled" is
\* "bare" under another display name, as the remote side may return it, and
\* "unset" is "bare" with no status, as convertSLSAlertToModel yields for a
\* remote alert whose Status is nil.
Shapes == { "bare", "full", "alt", "cfgOnly", "dupTags", "noDisplay", "badStatus" }

\* The bodies sent to the store directly, and those sent through the service.
StoreShapes == { "bare", "full", "alt", "cfgOnly", "dupTags" }
SvcShapes == { "bare", "full", "noDisplay", "badStatus" }

Body(shape) ==
    CASE shape = "bare" ->
           [ displayName |-> "A", description |-> None, status |-> "ENABLED",
             createTime |-> None, lastModifiedTime |-> Some(100),
             configuration |-> None, schedule |-> None,
             tags |-> << >>, queries |-> << >> ]
      [] shape = "full" ->
           [ displayName |-> "A", description |-> Some("d1"), status |-> "ENABLED",
             createTime |-> Some(50), lastModifiedTime |-> Some(100),
             configuration |->
                 Some(Configuration("default", AllBlocks,
                                    << Severity(8, Some(Condition("e1"))),
                                       Severity(6, None) >>,
                                    << Join("left_join") >>)),
             schedule |-> Some(Schedule("Cron", "0 * * * *")),
             tags |-> << Tag("label", "k1", "v1"), Tag("annotation", "k1", "v2") >>,
             queries |-> << Query("q1") >> ]
      [] shape = "alt" ->
           [ displayName |-> "B", description |-> Some("d2"), status |-> "DISABLED",
             createTime |-> Some(50), lastModifiedTime |-> Some(200),
             configuration |->
                 Some(Configuration("tpl",
                                    [NoBlocks EXCEPT
                                        !.conditionConfig = Some(Condition("c2"))],
                                    << Severity(4, None) >>, << >>)),
             schedule |-> Some(Schedule("FixedRate", "")),
             tags |-> << Tag("label", "k2", "v3") >>,
             queries |-> << Query("q2") >> ]
      [] shape = "cfgOnly" ->
           [ displayName |-> "B", description |-> None, status |-> "",
             createTime |-> None, lastModifiedTime |-> None,
             configuration |-> Some(Configuration("default", NoBlocks, << >>, << >>)),
             schedule |-> None, tags |-> << >>, queries |-> << >> ]
      [] shape = "dupTags" ->
           [ displayName |-> "A", description |-> None, status |-> "ENABLED",
             createTime |-> None, lastModifiedTime |-> Some(100),
             configuration |-> None, schedule |-> None,
             tags |-> << Tag("label", "k1", "v1"), Tag("label", "k1", "v9") >>,
             queries |-> << >> ]
      [] shape = "noDisplay" ->
           [ displayName |-> "", description |-> None, status |-> "ENABLED",
             createTime |-> None, lastModifiedTime |-> None,
             configuration |-> None, schedule |-> None,
             tags |-> << Tag("label", "k1", "v1") >>, queries |-> << >> ]
      [] shape = "badStatus" ->
           [ displayName |-> "A", description |-> None, status |-> "PAUSED",
             createTime |-> None, lastModifiedTime |-> None,
             configuration |-> None, schedule |-> None,
             tags |-> << Tag("label", "k1", "v1") >>, queries |-> << >> ]
      [] shape = "unset" ->
           [ displayName |-> "A", description |-> None, status |-> "",
             createTime |-> None, lastModifiedTime |-> Some(100),
             configuration |-> None, schedule |-> None,
             tags |-> << >>, queries |-> << >> ]
      [] shape = "tagged" ->
           [ displayName |-> "A", description |-> Some("d1"), status |-> "ENABLED",
             createTime |-> None, lastModifiedTime |-> Some(100),
             configuration |-> None, schedule |-> None,
             tags |-> << Tag("label", "k1", "v1"), Tag("annotation", "k2", "v2") >>,
             queries |-> << Query("q1") >> ]
      [] shape = "retitled" ->
           [ displayName |-> "B", description |-> None, status |-> "ENABLED",
             createTime |-> None, lastModifiedTime |-> Some(100),
             configuration |-> None, schedule |-> None,
             tags |-> << >>, queries |-> << >> ]

\* models.Alert as decoded from a request: the body plus the identity fields.
Aggregate(in) ==
    LET b == Body(in.shape)
    IN  [ id |-> in.id, name |-> in.name,
          displayName |-> b.displayName, description |-> b.description,
          status |-> b.status, createTime |-> b.createTime,
          lastModifiedTime |-> b.lastModifiedTime,
          configurationID |-> None, scheduleID |-> None,
          configuration |-> b.configuration, schedule |-> b.schedule,
          tags |-> b.tags, queries |-> b.queries ]

(***************************** storage *************************************)
\* A store whose child tables carry no foreign key to alerts.
RowAcceptedNoAlertFK(d, tbl, r) ==
    /\ r.id \notin DOMAIN d[tbl]
    /\ tbl = "alerts" => \A x \in Rows(d, tbl) : x.name # r.name
    /\ tbl = "alert_tags"
          => \A x \in Rows(d, tbl) :
                ~(x.alertID = r.alertID /\ x.tagType = r.tagType
                                        /\ x.tagKey = r.tagKey)
    /\ tbl \in { "severity_configurations", "join_configurations" }
          => r.alertConfigID \in DOMAIN d["alert_configurations"]
    /\ tbl = "severity_configurations" => ~IsNil(r.severity)

\* A store whose alerts table carries no uk_name.
RowAcceptedNoUkName(d, tbl, r) ==
    /\ r.id \notin DOMAIN d[tbl]
    /\ tbl \in { "alert_configurations", "alert_schedules", "alert_tags",
                 "alert_queries" }
          => r.alertID \in DOMAIN d["alerts"]
    /\ tbl = "alert_tags"
          => \A x \in Rows(d, tbl) :
                ~(x.alertID = r.alertID /\ x.tagType = r.tagType
                                        /\ x.tagKey = r.tagKey)
    /\ tbl \in { "severity_configurations", "join_configurations" }
          => r.alertConfigID \in DOMAIN d["alert_configurations"]
    /\ tbl = "severity_configurations" => ~IsNil(r.severity)

\* The constraints of sql/schema.sql a row must meet to be inserted with
\* primary key r.id: primary key, uk_name, uk_alert_tag, the NOT NULL of
\* severity, and the foreign keys.
RowAccepted(d, tbl, r) ==
    /\ r.id \notin DOMAIN d[tbl]
    /\ tbl = "alerts" => \A x \in Rows(d, tbl) : x.name # r.name
    /\ tbl \in { "alert_configurations", "alert_schedules", "alert_tags",
                 "alert_queries" }
          => r.alertID \in DOMAIN d["alerts"]
    /\ tbl = "alert_tags"
          => \A x \in Rows(d, tbl) :
                ~(x.alertID = r.alertID /\ x.tagType = r.tagType
                                        /\ x.tagKey = r.tagKey)
    /\ tbl \in { "severity_configurations", "join_configurations" }
          => r.alertConfigID \in DOMAIN d["alert_configurations"]
    /\ tbl = "severity_configurations" => ~IsNil(r.severity)
    /\ tbl = "alert_configurations"
          => \A b \in { "conditionConfig", "groupConfig", "policyConfig",
                        "templateConfig" } :
                IsNil(r[BlockSlot[b]])
                  \/ Deref(r[BlockSlot[b]]) \in DOMAIN d[BlockTables[b]]

\* The foreign keys a column assignment must meet (fk_alerts_configuration,
\* fk_alerts_schedule and the four sub-block keys of alert_configurations).
ColsAccepted(d, tbl, cols) ==
    /\ (tbl = "alerts" /\ "configurationID" \in DOMAIN cols)
          => IsNil(cols.configurationID)
               \/ Deref(cols.configurationID) \in DOMAIN d["alert_configurations"]
    /\ (tbl = "alerts" /\ "scheduleID" \in DOMAIN cols)
          => IsNil(cols.scheduleID)
               \/ Deref(cols.scheduleID) \in DOMAIN d["alert_schedules"]
    /\ tbl = "alert_configurations"
          => \A b \in { "conditionConfig", "groupConfig", "policyConfig",
                        "templateConfig" } :
                BlockSlot[b] \in DOMAIN cols
                  => IsNil(cols[BlockSlot[b]])
                       \/ Deref(cols[BlockSlot[b]]) \in DOMAIN d[BlockTables[b]]

\* DELETE of the rows `ids` of alert_schedules: ON DELETE SET NULL on alerts.
DeleteSchedules(d, ids) ==
    [d EXCEPT
       !["alert_schedules"] = Without(@, ids),
       !["alerts"] =
          [i \in DOMAIN @ |->
             IF ~IsNil(@[i].scheduleID) /\ Deref(@[i].scheduleID) \in ids
             THEN [@[i] EXCEPT !.scheduleID = None] ELSE @[i]]]

\* DELETE of the rows `ids` of alert_configurations: ON DELETE CASCADE on
\* severity_configurations and join_configurations, SET NULL on alerts.
DeleteConfigurations(d, ids) ==
    [d EXCEPT
       !["alert_configurations"] = Without(@, ids),
       !["severity_configurations"] =
          Without(@, { i \in DOMAIN @ : @[i].alertConfigID \in ids }),
       !["join_configurations"] =
          Without(@, { i \in DOMAIN @ : @[i].alertConfigID \in ids }),
       !["alerts"] =
          [i \in DOMAIN @ |->
             IF ~IsNil(@[i].configurationID) /\ Deref(@[i].configurationID) \in ids
             THEN [@[i] EXCEPT !.configurationID = None] ELSE @[i]]]

\* DELETE of the rows `ids` of alerts: ON DELETE CASCADE on the four child
\* tables.
DeleteAlerts(d, ids) ==
    LET d1 == DeleteConfigurations(d,
                 { i \in DOMAIN d["alert_configurations"] :
                      d["alert_configurations"][i].alertID \in ids })
        d2 == DeleteSchedules(d1,
                 { i \in DOMAIN d1["alert_schedules"] :
                      d1["alert_schedules"][i].alertID \in ids })
    IN  [d2 EXCEPT
           !["alert_tags"] = Without(@, { i \in DOMAIN @ : @[i].alertID \in ids }),
           !["alert_queries"] = Without(@, { i \in DOMAIN @ : @[i].alertID \in ids }),
           !["alerts"] = Without(@, ids)]

DeleteRows(d, tbl, ids) ==
    CASE tbl = "alerts" -> DeleteAlerts(d, ids)
      [] tbl = "alert_configurations" -> DeleteConfigurations(d, ids)
      [] tbl = "alert_schedules" -> DeleteSchedules(d, ids)
      [] OTHER -> [d EXCEPT ![tbl] = Without(@, ids)]

(***************************** statements **********************************)
\* The state of a transaction in progress: the rows as the transaction sees
\* them, the counters, whether a statement has failed and which one, the
\* statement at which a storage fault is injected, the key of the last row
\* inserted, and the variables of the calling function: alert.ID,
\* alert.ConfigurationID, alert.ScheduleID, the key of the Configuration row
\* being written, the sub-block keys captured for it and the severity rows
\* being prepared.  `log` lists the statements that wrote, one entry per row
\* inserted or UPDATE executed, in the order they ran.
Begin(d, s, fault, a) ==
    [ db |-> d, seq |-> s, err |-> FALSE, at |-> "", fault |-> fault, newID |-> 0,
      alertID |-> a.id, cfgPtr |-> a.configurationID, schPtr |-> a.scheduleID,
      cfgID |-> 0, slots |-> NoBlocks, rows |-> << >>, log |-> << >> ]

Fail(t, step) == [t EXCEPT !.err = TRUE, !.at = step]

\* tx.Create(&row): a zero ID takes the next AUTO_INCREMENT value.
TxCreate(t, step, tbl, row) ==
    IF t.err THEN t
    ELSE LET id == IF row.id = 0 THEN t.seq[tbl] + 1 ELSE row.id
             r  == [row EXCEPT !.id = id]
         IN  IF t.fault = step \/ ~RowAccepted(t.db, tbl, r)
             THEN Fail(t, step)
             ELSE [t EXCEPT !.db[tbl] = (id :> r) @@ @,
                            !.seq[tbl] = IF id > @ THEN id ELSE @,
                            !.newID = id,
                            !.log = Append(@, step)]

\* tx.Create(&rows): one INSERT of several rows.
RECURSIVE TxCreateEach(_, _, _, _)
TxCreateEach(t, step, tbl, rows) ==
    IF rows = << >> THEN t
    ELSE TxCreateEach(TxCreate(t, step, tbl, Head(rows)), step, tbl, Tail(rows))

TxCreateAll(t, step, tbl, rows) ==
    IF t.err THEN t
    ELSE IF t.fault = step THEN Fail(t, step)
    ELSE TxCreateEach(t, step, tbl, rows)

\* tx.Model(..).Where("id = ?", id).Updates(cols): no row is no error.
TxUpdates(t, step, tbl, id, cols) ==
    IF t.err THEN t
    ELSE IF t.fault = step THEN Fail(t, step)
    ELSE IF id \notin DOMAIN t.db[tbl] THEN t
    ELSE IF ~ColsAccepted(t.db, tbl, cols) THEN Fail(t, step)
    ELSE [t EXCEPT !.db[tbl][id] =
             [f \in DOMAIN @ |-> IF f \in DOMAIN cols THEN cols[f] ELSE @[f]],
                   !.log = Append(@, step)]

\* tx.Where(col = v).Delete(..)
TxDelete(t, step, tbl, ids) ==
    IF t.err THEN t
    ELSE IF t.fault = step THEN Fail(t, step)
    ELSE [t EXCEPT !.db = DeleteRows(@, tbl, ids)]

OwnedBy(d, tbl, alertID) == { i \in DOMAIN d[tbl] : d[tbl][i].alertID = alertID }

OfConfig(d, tbl, cfgID) == { i \in DOMAIN d[tbl] : d[tbl][i].alertConfigID = cfgID }

\* tx.Where("alert_id = ?", alertID).Delete(..)
TxDeleteOwned(t, step, tbl, alertID) ==
    TxDelete(t, step, tbl, OwnedBy(t.db, tbl, alertID))

\* tx.Where("alert_config_id = ?", cfgID).Delete(..)
TxDeleteOfConfig(t, step, tbl, cfgID) ==
    TxDelete(t, step, tbl, OfConfig(t.db, tbl, cfgID))

\* alert.ID = cleanAlert.ID
CaptureAlertID(t) == IF t.err THEN t ELSE [t EXCEPT !.alertID = t.newID]

\* alert.ConfigurationID = &configToCreate.ID
CaptureConfigID(t) ==
    IF t.err THEN t ELSE [t EXCEPT !.cfgID = t.newID, !.cfgPtr = Some(t.newID)]

\* alert.ScheduleID = &scheduleToCreate.ID
CaptureScheduleID(t) == IF t.err THEN t ELSE [t EXCEPT !.schPtr = Some(t.newID)]

\* configToCreate.<Block>ConfigID = &config.ID
CaptureSlot(t, b) == IF t.err THEN t ELSE [t EXCEPT !.slots[b] = Some(t.newID)]

\* db.Transaction(fn): what fn wrote is committed when fn returns nil and
\* discarded when it returns an error.  The result is what the caller sees:
\* the tables, the counters, the error, the failing statement and alert.ID,
\* with the statements that wrote.
Transaction(d, s, t) ==
    [ db |-> IF t.err THEN d ELSE t.db, seq |-> IF t.err THEN s ELSE t.seq,
      err |-> t.err, at |-> t.at, id |-> t.alertID, log |-> t.log ]

\* The statements of fn run one by one with no transaction around them.
NoTransaction(d, s, t) ==
    [ db |-> t.db, seq |-> t.seq, err |-> t.err, at |-> t.at, id |-> t.alertID,
      log |-> t.log ]

(***************************** CreateWithTransaction ***********************)
CleanAlert(a) ==
    [ id |-> 0, name |-> a.name, displayName |-> a.displayName,
      description |-> a.description,
      status |-> IF a.status = "" THEN "ENABLED" ELSE a.status,
      createTime |-> a.createTime, lastModifiedTime |-> a.lastModifiedTime,
      configurationID |-> None, scheduleID |-> None ]

\* The alert_configurations row built from a supplied Configuration; `slots`
\* gives the sub-block keys the caller has captured.
ConfigToCreate(alertID, c, slots) ==
    [ id |-> 0, alertID |-> alertID,
      autoAnnotation |-> c.autoAnnotation, dashboard |-> c.dashboard,
      muteUntil |-> c.muteUntil, noDataFire |-> c.noDataFire,
      noDataSeverity |-> c.noDataSeverity, threshold |-> c.threshold,
      type |-> c.type, version |-> c.version, sendResolved |-> c.sendResolved,
      conditionConfigID |-> slots.conditionConfig,
      groupConfigID |-> slots.groupConfig,
      policyConfigID |-> slots.policyConfig,
      templateConfigID |-> slots.templateConfig,
      sinkAlerthubConfigID |-> slots.sinkAlerthubConfig,
      sinkCmsConfigID |-> slots.sinkCmsConfig,
      sinkEventStoreConfigID |-> slots.sinkEventStoreConfig ]

ScheduleToCreate(alertID, s) ==
    [ id |-> 0, alertID |-> alertID, cronExpression |-> s.cronExpression,
      delay |-> s.delay, interval |-> s.interval,
      runImmediately |-> s.runImmediately, timeZone |-> s.timeZone,
      type |-> s.type ]

TagsToCreate(alertID, tags) ==
    [ i \in 1..Len(tags) |->
        [ id |-> 0, alertID |-> alertID, tagType |-> tags[i].tagType,
          tagKey |-> tags[i].tagKey, tagValue |-> tags[i].tagValue ] ]

QueriesToCreate(alertID, qs) ==
    [ i \in 1..Len(qs) |->
        [ id |-> 0, alertID |-> alertID, chartTitle |-> qs[i].chartTitle,
          dashboardId |-> qs[i].dashboardId, end |-> qs[i].end,
          powerSqlMode |-> qs[i].powerSqlMode, project |-> qs[i].project,
          query |-> qs[i].query, region |-> qs[i].region,
          roleArn |-> qs[i].roleArn, start |-> qs[i].start,
          store |-> qs[i].store, storeType |-> qs[i].storeType,
          timeSpanType |-> qs[i].timeSpanType, ui |-> qs[i].ui ] ]

\* Create step 1.
CreateRoot(t, a) == CaptureAlertID(TxCreate(t, "alert", "alerts", CleanAlert(a)))

\* Create step 2: the Configuration row, with no sub-block key.
CreateConfigRow(t, c) ==
    CaptureConfigID(TxCreate(t, "configuration", "alert_configurations",
                             ConfigToCreate(t.alertID, c, NoBlocks)))

\* Create step 3: every present sub-block is inserted with alert_config_id
\* set to the Configuration row created just before; the Configuration row's
\* own slots are not written.
RECURSIVE CreateBlocks(_, _, _)
CreateBlocks(t, c, bs) ==
    IF t.err \/ bs = << >> THEN t
    ELSE CreateBlocks(
            IF IsNil(c[Head(bs)]) THEN t
            ELSE TxCreate(t, Head(bs), BlockTables[Head(bs)],
                          [Deref(c[Head(bs)]) EXCEPT !.alertConfigID = t.cfgID]),
            c, Tail(bs))

\* One pass of the loop over SeverityConfigs, first half: the eval condition,
\* when there is one, is inserted; `owner` says whether alert_config_id is
\* written to it (Create does, the update paths do not).
CreateEvalCondition(t, sv, owner) ==
    IF IsNil(sv.evalCondition) THEN t
    ELSE TxCreate(t, "evalCondition", "condition_configurations",
                  IF owner
                  THEN [Deref(sv.evalCondition) EXCEPT !.alertConfigID = t.cfgID]
                  ELSE Deref(sv.evalCondition))

\* Second half: the severity takes the eval condition's key, the key of the
\* Configuration and a zero ID.
PrepareSeverity(t, sv) ==
    IF t.err THEN t
    ELSE [t EXCEPT !.rows = @ \o
            << [ id |-> 0, alertConfigID |-> t.cfgID, severity |-> sv.severity,
                 evalConditionID |->
                    IF IsNil(sv.evalCondition) THEN sv.evalConditionID
                    ELSE Some(t.newID) ] >>]

\* The loop over SeverityConfigs.
RECURSIVE EvalConditions(_, _, _)
EvalConditions(t, sevs, owner) ==
    IF t.err \/ sevs = << >> THEN t
    ELSE EvalConditions(
            PrepareSeverity(CreateEvalCondition(t, Head(sevs), owner), Head(sevs)),
            Tail(sevs), owner)

\* tx.Create(&SeverityConfigs)
InsertSeverities(t) ==
    TxCreateAll(t, "severityConfigs", "severity_configurations", t.rows)

CreateSeverities(t, sevs, owner) ==
    IF t.err \/ Len(sevs) = 0 THEN t
    ELSE InsertSeverities(EvalConditions([t EXCEPT !.rows = << >>], sevs, owner))

JoinsToCreate(cfgID, js) ==
    [ i \in 1..Len(js) |->
        [ id |-> 0, alertConfigID |-> cfgID, joinType |-> js[i].joinType,
          joinConfig |-> js[i].joinConfig ] ]

CreateJoins(t, js) ==
    IF t.err \/ Len(js) = 0 THEN t
    ELSE TxCreateAll(t, "joinConfigs", "join_configurations",
                     JoinsToCreate(t.cfgID, js))

\* Create steps 2 to 4.
CreateConfiguration(t, a) ==
    IF IsNil(a.configuration) THEN t
    ELSE CreateJoins(
            CreateSeverities(
               CreateBlocks(CreateConfigRow(t, Deref(a.configuration)),
                            Deref(a.configuration), Blocks),
               Deref(a.configuration).severityConfigs, TRUE),
            Deref(a.configuration).joinConfigs)

\* Create step 5.
CreateSchedule(t, a) ==
    IF IsNil(a.schedule) THEN t
    ELSE CaptureScheduleID(
            TxCreate(t, "schedule", "alert_schedules",
                     ScheduleToCreate(t.alertID, Deref(a.schedule))))

\* Create step 6.
CreateTags(t, a) ==
    IF Len(a.tags) > 0
    THEN TxCreateAll(t, "tags", "alert_tags", TagsToCreate(t.alertID, a.tags))
    ELSE t

\* Create step 7.
CreateQueries(t, a) ==
    IF Len(a.queries) > 0
    THEN TxCreateAll(t, "queries", "alert_queries",
                     QueriesToCreate(t.alertID, a.queries))
    ELSE t

\* Step 8 of Create, step 6 of Update: the root's configuration_id and
\* schedule_id are written from the in-memory alert when they are non-nil.
RelationIDs(t) ==
    IF t.err \/ (IsNil(t.cfgPtr) /\ IsNil(t.schPtr)) THEN t
    ELSE TxUpdates(t, "relationIDs", "alerts", t.alertID,
                   (IF IsNil(t.cfgPtr) THEN << >> ELSE [configurationID |-> t.cfgPtr])
                   @@ (IF IsNil(t.schPtr) THEN << >> ELSE [scheduleID |-> t.schPtr]))

\* The function passed to Transaction: the transaction state it ends in.
CreateBody(d, s, a, fault) ==
    RelationIDs(
       CreateQueries(
          CreateTags(
             CreateSchedule(
                CreateConfiguration(CreateRoot(Begin(d, s, fault, a), a), a),
                a), a), a))

\* CreateWithTransaction run statement by statement outside a transaction.
CreateWithoutTransaction(d, s, a, fault) ==
    NoTransaction(d, s, CreateBody(d, s, a, fault))

\* alertStore.CreateWithTransaction
CreateWithTransaction(d, s, a, fault) ==
    Transaction(d, s, CreateBody(d, s, a, fault))

(***************************** Delete **************************************)
\* SELECT id FROM alert_configurations WHERE alert_id = ? ORDER BY id LIMIT 1
FirstConfigID(d, alertID) ==
    IF OwnedBy(d, "alert_configurations", alertID) = {} THEN None
    ELSE Some(SortedIds(OwnedBy(d, "alert_configurations", alertID))[1])

\* The two deletes of deleteConfigurationAssociations.
DeleteAssociationsOf(t, cfgID) ==
    TxDeleteOfConfig(
       TxDeleteOfConfig(t, "deleteSeverity", "severity_configurations", cfgID),
       "deleteJoin", "join_configurations", cfgID)

\* alertStore.deleteConfigurationAssociations
DeleteConfigurationAssociations(t, alertID) ==
    IF t.err THEN t
    ELSE IF t.fault = "getConfigID" THEN Fail(t, "getConfigID")
    ELSE IF IsNil(FirstConfigID(t.db, alertID)) THEN t
    ELSE DeleteAssociationsOf(t, Deref(FirstConfigID(t.db, alertID)))

\* Delete is given the key alone.
ByID(id) == [id |-> id, configurationID |-> None, scheduleID |-> None]

\* db.Delete(&models.Alert{}, id)
TxDeleteRoot(t, id) ==
    TxDelete(t, "deleteAlert", "alerts", {id} \cap DOMAIN t.db["alerts"])

\* Delete that removes the children and leaves the root row.
DeleteBodyKeepsRoot(d, s, id, fault) ==
    TxDeleteOwned(
       TxDeleteOwned(
          TxDeleteOwned(
             TxDeleteOwned(
                DeleteConfigurationAssociations(
                   Begin(d, s, fault, ByID(id)),
                   id),
                "deleteConfiguration", "alert_configurations", id),
             "deleteSchedule", "alert_schedules", id),
          "deleteTags", "alert_tags", id),
       "deleteQueries", "alert_queries", id)

\* The function passed to Transaction by Delete.
DeleteBody(d, s, id, fault) ==
    TxDeleteRoot(
       TxDeleteOwned(
          TxDeleteOwned(
             TxDeleteOwned(
                TxDeleteOwned(
                   DeleteConfigurationAssociations(
                      Begin(d, s, fault, ByID(id)),
                      id),
                   "deleteConfiguration", "alert_configurations", id),
                "deleteSchedule", "alert_schedules", id),
             "deleteTags", "alert_tags", id),
          "deleteQueries", "alert_queries", id),
       id)

\* alertStore.Delete
StoreDeleteTx(d, s, id, fault) == Transaction(d, s, DeleteBody(d, s, id, fault))

(***************************** UpdateWithTransaction ***********************)
\* The columns each upsert function refreshes when the slot is occupied.
UpsertColumns ==
    [ conditionConfig      |-> { "condition", "countCondition" },
      groupConfig          |-> { "fields", "type" },
      policyConfig         |-> { "alertPolicyId", "actionPolicyId", "repeatInterval" },
      templateConfig       |-> { "templateId", "lang", "type", "version",
                                 "aonotations", "tokens" },
      sinkAlerthubConfig   |-> { "enabled" },
      sinkCmsConfig        |-> { "enabled" },
      sinkEventStoreConfig |-> { "enabled", "endpoint", "eventStore", "project",
                                 "roleArn" } ]

\* Update("<block>_config_id", config.ID) on the Configuration row.
LinkSlot(t, b) ==
    TxUpdates(t, "slot", "alert_configurations", t.cfgID,
              [x \in {BlockSlot[b]} |-> Some(t.newID)])

\* An upsert that inserts and relinks whatever the slot holds.
UpsertAlwaysInserts(t, b, config) ==
    IF t.err THEN t
    ELSE IF t.fault = "getSlot" THEN Fail(t, "getSlot")
    ELSE LinkSlot(TxCreate(t, b, BlockTables[b], [config EXCEPT !.id = 0]), b)

\* upsertConditionConfig and its six siblings.
Upsert(t, b, config) ==
    IF t.err THEN t
    ELSE IF t.fault = "getSlot" THEN Fail(t, "getSlot")
    ELSE IF IsNil(t.db["alert_configurations"][t.cfgID][BlockSlot[b]])
            \/ t.db["alert_configurations"][t.cfgID][BlockSlot[b]] = Some(0)
    THEN LinkSlot(TxCreate(t, b, BlockTables[b], [config EXCEPT !.id = 0]), b)
    ELSE TxUpdates(t, b, BlockTables[b],
                   Deref(t.db["alert_configurations"][t.cfgID][BlockSlot[b]]),
                   [f \in UpsertColumns[b] |-> config[f]])

RECURSIVE UpsertBlocks(_, _, _)
UpsertBlocks(t, c, bs) ==
    IF t.err \/ bs = << >> THEN t
    ELSE UpsertBlocks(
            IF IsNil(c[Head(bs)]) THEN t ELSE Upsert(t, Head(bs), Deref(c[Head(bs)])),
            c, Tail(bs))

\* recreateConfiguration, the sub-blocks: each present one is inserted as
\* supplied and its key captured for the Configuration row.
RECURSIVE RecreateBlocks(_, _, _)
RecreateBlocks(t, c, bs) ==
    IF t.err \/ bs = << >> THEN t
    ELSE RecreateBlocks(
            IF IsNil(c[Head(bs)]) THEN t
            ELSE CaptureSlot(TxCreate(t, Head(bs), BlockTables[Head(bs)],
                                      Deref(c[Head(bs)])),
                             Head(bs)),
            c, Tail(bs))

\* recreateConfiguration, the Configuration row with the captured keys.
RecreateConfigRow(t, c) ==
    CaptureConfigID(TxCreate(t, "configuration", "alert_configurations",
                             ConfigToCreate(t.alertID, c, t.slots)))

\* alertStore.recreateConfiguration
RecreateConfiguration(t, c) ==
    CreateJoins(
       CreateSeverities(RecreateConfigRow(RecreateBlocks(t, c, Blocks), c),
                        c.severityConfigs, FALSE),
       c.joinConfigs)

\* updateConfiguration: Updates(updateData) on the Configuration row.
UpdateConfigRow(t, c) ==
    TxUpdates(t, "configuration", "alert_configurations", t.cfgID,
              [ autoAnnotation |-> c.autoAnnotation, dashboard |-> c.dashboard,
                muteUntil |-> c.muteUntil, noDataFire |-> c.noDataFire,
                noDataSeverity |-> c.noDataSeverity, threshold |-> c.threshold,
                type |-> c.type, version |-> c.version,
                sendResolved |-> c.sendResolved ])

\* updateConfiguration: the severities, replaced when some are supplied.
ReplaceSeverities(t, sevs) ==
    IF t.err \/ Len(sevs) = 0 THEN t
    ELSE CreateSeverities(
            TxDeleteOfConfig(t, "deleteSeverity", "severity_configurations", t.cfgID),
            sevs, FALSE)

\* updateConfiguration: the joins, replaced when some are supplied.
ReplaceJoins(t, js) ==
    IF t.err \/ Len(js) = 0 THEN t
    ELSE CreateJoins(
            TxDeleteOfConfig(t, "deleteJoin", "join_configurations", t.cfgID), js)

\* alert.ConfigurationID = &existingConfigID
SetConfigurationID(t) == IF t.err THEN t ELSE [t EXCEPT !.cfgPtr = Some(t.cfgID)]

\* updateConfiguration when the aggregate has a Configuration row.
UpdateExisting(t, c) ==
    SetConfigurationID(
       ReplaceJoins(
          ReplaceSeverities(UpsertBlocks(UpdateConfigRow(t, c), c, Blocks),
                            c.severityConfigs),
          c.joinConfigs))

\* alertStore.updateConfiguration
UpdateConfiguration(t, a) ==
    IF t.err THEN t
    ELSE IF t.fault = "getExistingConfigID" THEN Fail(t, "getExistingConfigID")
    ELSE IF IsNil(FirstConfigID(t.db, a.id))
    THEN RecreateConfiguration(t, Deref(a.configuration))
    ELSE UpdateExisting([t EXCEPT !.cfgID = Deref(FirstConfigID(t.db, a.id))],
                        Deref(a.configuration))

\* A root update that also writes the name column.
UpdateRootWithName(t, a) ==
    TxUpdates(t, "alert", "alerts", a.id,
              [ name |-> a.name,
                displayName |-> a.displayName, description |-> a.description,
                status |-> a.status, lastModifiedTime |-> a.lastModifiedTime ])

\* Step 1 of Update: the root columns that are written.
UpdateRoot(t, a) ==
    TxUpdates(t, "alert", "alerts", a.id,
              [ displayName |-> a.displayName, description |-> a.description,
                status |-> a.status, lastModifiedTime |-> a.lastModifiedTime ])

\* A step 2 that goes to updateConfiguration without clearing the old
\* severities and joins first.
UpdateConfigurationStepKeepsOld(t, a) ==
    IF IsNil(a.configuration) THEN t
    ELSE UpdateConfiguration(t, a)

\* Step 2 of Update.
UpdateConfigurationStep(t, a) ==
    IF IsNil(a.configuration) THEN t
    ELSE UpdateConfiguration(DeleteConfigurationAssociations(t, a.id), a)

\* Step 3 of Update.
UpdateSchedule(t, a) ==
    IF IsNil(a.schedule) THEN t
    ELSE CaptureScheduleID(
            TxCreate(TxDeleteOwned(t, "deleteSchedule", "alert_schedules", a.id),
                     "schedule", "alert_schedules",
                     ScheduleToCreate(a.id, Deref(a.schedule))))

\* A tag step that inserts when the aggregate has no tags and deletes when it has.
UpdateTagsToggle(t, a) ==
    IF Len(a.tags) > 0
    THEN IF OwnedBy(t.db, "alert_tags", a.id) = {}
         THEN TxCreateAll(t, "tags", "alert_tags", TagsToCreate(a.id, a.tags))
         ELSE TxDeleteOwned(t, "deleteTags", "alert_tags", a.id)
    ELSE t

\* Step 4 of Update.
UpdateTags(t, a) ==
    IF Len(a.tags) > 0
    THEN TxCreateAll(TxDeleteOwned(t, "deleteTags", "alert_tags", a.id),
                     "tags", "alert_tags", TagsToCreate(a.id, a.tags))
    ELSE t

\* Step 5 of Update.
UpdateQueries(t, a) ==
    IF Len(a.queries) > 0
    THEN TxCreateAll(TxDeleteOwned(t, "deleteQueries", "alert_queries", a.id),
                     "queries", "alert_queries", QueriesToCreate(a.id, a.queries))
    ELSE t

\* The function passed to Transaction by UpdateWithTransaction.
UpdateBody(d, s, a, fault) ==
    IF a.id = 0 THEN Fail(Begin(d, s, fault, a), "alertID")
    ELSE RelationIDs(
            UpdateQueries(
               UpdateTags(
                  UpdateSchedule(
                     UpdateConfigurationStep(UpdateRoot(Begin(d, s, fault, a), a), a),
                     a), a), a))

\* UpdateWithTransaction run statement by statement outside a transaction.
UpdateWithoutTransaction(d, s, a, fault) ==
    NoTransaction(d, s, UpdateBody(d, s, a, fault))

\* alertStore.UpdateWithTransaction
UpdateWithTransaction(d, s, a, fault) ==
    Transaction(d, s, UpdateBody(d, s, a, fault))

(***************************** reads ***************************************)
\* Preload of a belongs-to association: the row the foreign key refers to.
BelongsTo(d, tbl, ptr) ==
    IF ~IsNil(ptr) /\ Deref(ptr) \in DOMAIN d[tbl] THEN Some(d[tbl][Deref(ptr)])
    ELSE None

\* Preload of a has-many association: the rows whose key column is `id`.
HasMany(d, tbl, ids) == LET o == SortedIds(ids) IN [i \in 1..Len(o) |-> d[tbl][o[i]]]

\* Preload("Configuration") with its nested preloads ConditionConfig,
\* GroupConfig, PolicyConfig, TemplateConfig and SeverityConfigs; what is not
\* preloaded keeps its zero value.
PreloadConfiguration(d, ptr, nested) ==
    LET c == BelongsTo(d, "alert_configurations", ptr)
    IN  IF IsNil(c) THEN None
        ELSE LET row == Deref(c)
                 blk(b) == IF nested
                           THEN BelongsTo(d, BlockTables[b], row[BlockSlot[b]])
                           ELSE None
             IN  Some(row @@
                   [ conditionConfig |-> blk("conditionConfig"),
                     groupConfig |-> blk("groupConfig"),
                     policyConfig |-> blk("policyConfig"),
                     templateConfig |-> blk("templateConfig"),
                     sinkAlerthubConfig |-> None,
                     sinkCmsConfig |-> None,
                     sinkEventStoreConfig |-> None,
                     severityConfigs |->
                        IF nested
                        THEN LET sv == HasMany(d, "severity_configurations",
                                         OfConfig(d, "severity_configurations", row.id))
                             IN  [i \in 1..Len(sv) |-> sv[i] @@ [evalCondition |-> None]]
                        ELSE << >>,
                     joinConfigs |-> << >> ])

Hydrate(d, root, nested) ==
    root @@
      [ configuration |-> PreloadConfiguration(d, root.configurationID, nested),
        schedule |-> BelongsTo(d, "alert_schedules", root.scheduleID),
        tags |-> HasMany(d, "alert_tags", OwnedBy(d, "alert_tags", root.id)),
        queries |-> HasMany(d, "alert_queries", OwnedBy(d, "alert_queries", root.id)) ]

\* alertStore.GetByID: None is gorm.ErrRecordNotFound.
GetByID(d, id) ==
    IF id \in DOMAIN d["alerts"] THEN Some(Hydrate(d, d["alerts"][id], TRUE)) ELSE None

\* alertStore.GetByName
GetByName(d, name) ==
    LET ids == { i \in DOMAIN d["alerts"] : d["alerts"][i].name = name }
    IN  IF ids = {} THEN None ELSE GetByID(d, SortedIds(ids)[1])

(***************************** service *************************************)
\* A validation that does not look at the status.
validateAlertNoStatus(a) ==
    IF a.name = "" THEN "name"
    ELSE IF a.displayName = "" THEN "displayName"
    ELSE ""

\* alertService.validateAlert: the field refused, "" when the alert is valid.
validateAlert(a) ==
    IF a.name = "" THEN "name"
    ELSE IF a.displayName = "" THEN "displayName"
    ELSE IF a.status # "" /\ a.status # "ENABLED" /\ a.status # "DISABLED" THEN "status"
    ELSE ""

\* alertService.CreateAlert up to the store call: why the request is refused,
\* "" when it goes on to CreateWithTransaction.
CreateAlertRefusal(d, a) ==
    IF validateAlert(a) # "" THEN validateAlert(a)
    ELSE IF ~IsNil(GetByName(d, a.name)) THEN "exists"
    ELSE ""

\* alertService.UpdateAlert up to the store call.
UpdateAlertRefusal(d, a) ==
    IF a.id = 0 THEN "id"
    ELSE IF validateAlert(a) # "" THEN validateAlert(a)
    ELSE IF a.name # "" /\ ~IsNil(GetByName(d, a.name))
            /\ Deref(GetByName(d, a.name)).id # a.id THEN "exists"
    ELSE ""

\* alertService.DeleteAlert up to the store call.
DeleteAlertRefusal(d, id) ==
    IF id = 0 THEN "id"
    ELSE IF IsNil(GetByID(d, id)) THEN "notFound"
    ELSE ""

(***************************** reconciliation ******************************)
\* The batches of syncService (SyncSLSToDatabase, SyncDatabaseToSLS) run one
\* loop iteration per step.  What the remote gateway answers is an input:
\* the list GetAlerts returns (already converted to models.Alert), whether a
\* name exists remotely, whether a remote call fails.  The page size 1000 of
\* SyncDatabaseToSLS is scaled down to ListLimit.
MaxBatch == 3
MaxSyncs == 2
ListLimit == 2

SyncNames == { "a", "b", "c" }
SyncShapes == { "bare", "retitled" }

\* The position of a name in the remote listing.
Rank == [ a |-> 1, b |-> 2, c |-> 3 ]

RemoteItems == [ name : SyncNames, shape : SyncShapes ]

\* What GetAlerts may return: alerts of distinct names, in listing order.
RemoteLists ==
    { l \in UNION { [1..n -> RemoteItems] : n \in 0..MaxBatch } :
        \A i, j \in DOMAIN l : i < j => Rank[l[i].name] < Rank[l[j].name] }

NoError == [ name |-> "", at |-> "" ]

\* An error of item `name`, raised at `at`.
ItemError(name, at) == [ name |-> name, at |-> at ]

\* needsUpdate without the branch for a description removed remotely.
needsUpdateKeepsDescription(existing, new) ==
    IF IsNil(existing.lastModifiedTime) \/ IsNil(new.lastModifiedTime) THEN TRUE
    ELSE IF Deref(existing.lastModifiedTime) # Deref(new.lastModifiedTime) THEN TRUE
    ELSE IF existing.displayName # new.displayName THEN TRUE
    ELSE IF existing.status # new.status THEN TRUE
    ELSE IF IsNil(existing.description) /\ ~IsNil(new.description) THEN TRUE
    ELSE IF ~IsNil(existing.description) /\ ~IsNil(new.description)
            /\ Deref(existing.description) # Deref(new.description) THEN TRUE
    ELSE FALSE

\* syncService.needsUpdate
needsUpdate(existing, new) ==
    IF IsNil(existing.lastModifiedTime) \/ IsNil(new.lastModifiedTime) THEN TRUE
    ELSE IF Deref(existing.lastModifiedTime) # Deref(new.lastModifiedTime) THEN TRUE
    ELSE IF existing.displayName # new.displayName THEN TRUE
    ELSE IF existing.status # new.status THEN TRUE
    ELSE IF IsNil(existing.description) /\ ~IsNil(new.description) THEN TRUE
    ELSE IF ~IsNil(existing.description) /\ IsNil(new.description) THEN TRUE
    ELSE IF ~IsNil(existing.description) /\ ~IsNil(new.description)
            /\ Deref(existing.description) # Deref(new.description) THEN TRUE
    ELSE FALSE

\* What a batch call returned.  nil is err = FALSE; the error built at the
\* end of a batch is the text "sync completed with <failed> failures. Last
\* error: <last>"; the error of a failed listing is kind "list".
NoReturn == [ call |-> "none", err |-> FALSE, kind |-> "", failed |-> 0, last |-> NoError ]

NoStatus == [ op |-> "none" ]

\* The engine at rest.  `wired` says whether main obtained an SLS client and
\* so built the sync service and the handler around it.
SyncIdle ==
    [ phase |-> "idle", wired |-> TRUE, runs |-> 0, items |-> << >>, i |-> 0,
      syncedCount |-> 0, failedCount |-> 0, updatedCount |-> 0, createdCount |-> 0,
      lastError |-> NoError, canceled |-> FALSE, issued |-> << >>,
      ret |-> NoReturn, status |-> NoStatus ]

\* The local variables of a batch at the top of its loop.
StartBatch(sy, phase, items) ==
    [ sy EXCEPT !.phase = phase, !.runs = @ + 1, !.items = items, !.i = 0,
                !.syncedCount = 0, !.failedCount = 0, !.updatedCount = 0,
                !.createdCount = 0, !.lastError = NoError, !.canceled = FALSE,
                !.issued = << >>, !.ret = NoReturn, !.status = NoStatus ]

\* A batch that returns before its loop: the listing failed.
ListFailed(sy, call) ==
    [ sy EXCEPT !.phase = "done", !.runs = @ + 1, !.status = NoStatus,
                !.ret = [ call |-> call, err |-> TRUE, kind |-> "list",
                          failed |-> 0, last |-> NoError ] ]

\* One loop iteration as the record of what it issued: the per-item
\* operation, the item, its outcome and whether ctx was already canceled.
Issue(sy, op, name, e) ==
    [ sy EXCEPT !.issued = Append(@, [ op |-> op, name |-> name, err |-> e,
                                       canceled |-> sy.canceled ]) ]

\* A failing iteration that leaves the loop instead of going on.
ItemFailedBreak(sy, op, name, at) ==
    [ Issue(sy, op, name, ItemError(name, at))
        EXCEPT !.failedCount = @ + 1, !.lastError = ItemError(name, at),
               !.i = Len(sy.items) ]

\* failedCount++; lastError = err.Error(); continue
ItemFailed(sy, op, name, at) ==
    [ Issue(sy, op, name, ItemError(name, at))
        EXCEPT !.failedCount = @ + 1, !.lastError = ItemError(name, at),
               !.i = @ + 1 ]

\* A successful iteration that leaves syncedCount alone when the item was
\* up to date.
ItemSyncedSkipUncounted(sy, op, name) ==
    [ Issue(sy, op, name, NoError)
        EXCEPT !.syncedCount = IF op = "skip" THEN @ ELSE @ + 1,
               !.updatedCount = IF op = "update" THEN @ + 1 ELSE @,
               !.createdCount = IF op = "create" THEN @ + 1 ELSE @,
               !.i = @ + 1 ]

\* updatedCount++ or createdCount++, then syncedCount++
ItemSynced(sy, op, name) ==
    [ Issue(sy, op, name, NoError)
        EXCEPT !.syncedCount = @ + 1,
               !.updatedCount = IF op = "update" THEN @ + 1 ELSE @,
               !.createdCount = IF op = "create" THEN @ + 1 ELSE @,
               !.i = @ + 1 ]

\* A statement of database/sql under a canceled context fails before it
\* reaches the server.
CtxErr(sy) == IF sy.canceled THEN "context canceled" ELSE ""

\* The result of an iteration: the tables, the counters, the engine and the
\* statement that failed.
Step(d, s, sy, at) == [ db |-> d, seq |-> s, sync |-> sy, at |-> at ]

\* The else branch of the pull loop: alertService.CreateAlert.
PullCreate(d, s, sy, a, fault) ==
    IF validateAlert(a) # ""
    THEN Step(d, s, ItemFailed(sy, "create", a.name, validateAlert(a)), validateAlert(a))
    ELSE IF CtxErr(sy) # ""
    THEN Step(d, s, ItemFailed(sy, "create", a.name, CtxErr(sy)), CtxErr(sy))
    ELSE IF CreateWithTransaction(d, s, a, fault).err
    THEN Step(d, s, ItemFailed(sy, "create", a.name,
                               CreateWithTransaction(d, s, a, fault).at),
              CreateWithTransaction(d, s, a, fault).at)
    ELSE Step(CreateWithTransaction(d, s, a, fault).db,
              CreateWithTransaction(d, s, a, fault).seq,
              ItemSynced(sy, "create", a.name), "")

\* The needsUpdate branch: slsAlert.ID = existingAlert.ID, then
\* alertService.UpdateAlert.
PullUpdate(d, s, sy, a, fault) ==
    IF UpdateAlertRefusal(d, a) # ""
    THEN Step(d, s, ItemFailed(sy, "update", a.name, UpdateAlertRefusal(d, a)),
              UpdateAlertRefusal(d, a))
    ELSE IF UpdateWithTransaction(d, s, a, fault).err
    THEN Step(d, s, ItemFailed(sy, "update", a.name,
                               UpdateWithTransaction(d, s, a, fault).at),
              UpdateWithTransaction(d, s, a, fault).at)
    ELSE Step(UpdateWithTransaction(d, s, a, fault).db,
              UpdateWithTransaction(d, s, a, fault).seq,
              ItemSynced(sy, "update", a.name), "")

\* One iteration of the loop of SyncSLSToDatabase over slsAlert `a`.  Under a
\* canceled context GetByName returns an error, which the loop takes for
\* "not there".
PullStep(d, s, sy, a, fault) ==
    IF CtxErr(sy) = "" /\ ~IsNil(GetByName(d, a.name))
    THEN IF needsUpdate(Deref(GetByName(d, a.name)), a)
         THEN PullUpdate(d, s, sy, [a EXCEPT !.id = Deref(GetByName(d, a.name)).id],
                         fault)
         ELSE Step(d, s, ItemSynced(sy, "skip", a.name), "")
    ELSE PullCreate(d, s, sy, a, fault)

\* The end of a batch with one failure forgiven.
SyncReturnTolerant(call, failedCount, lastError) ==
    IF failedCount > 1
    THEN [ call |-> call, err |-> TRUE, kind |-> "failures",
           failed |-> failedCount, last |-> lastError ]
    ELSE [ call |-> call, err |-> FALSE, kind |-> "", failed |-> 0, last |-> NoError ]

\* The end of both batches: fmt.Errorf("sync completed with %d failures.
\* Last error: %s", failedCount, lastError) when failedCount > 0, else nil.
SyncReturn(call, failedCount, lastError) ==
    IF failedCount > 0
    THEN [ call |-> call, err |-> TRUE, kind |-> "failures",
           failed |-> failedCount, last |-> lastError ]
    ELSE [ call |-> call, err |-> FALSE, kind |-> "", failed |-> 0, last |-> NoError ]

\* Offset(offset).Limit(limit).Order("created_at DESC").Find(&alerts) over
\* the root rows `ids`: newest key first, from `offset` on, at most `limit`.
Page(d, ids, offset, limit) ==
    LET asc == SortedIds(ids)
        n   == Len(asc)
        to  == IF offset + limit < n THEN offset + limit ELSE n
    IN  [ k \in 1..(IF to > offset THEN to - offset ELSE 0) |->
            d["alerts"][asc[n + 1 - (offset + k)]] ]

\* The four Preload calls of List and ListByStatus: Configuration, Schedule,
\* Tags and Queries, nothing nested.
Preloaded(d, rows) == [ k \in DOMAIN rows |-> Hydrate(d, rows[k], FALSE) ]

\* The root rows of a status.
WithStatus(d, status) == { i \in DOMAIN d["alerts"] : d["alerts"][i].status = status }

\* alertStore.List(ctx, offset, limit): the page and the total.
List(d, offset, limit) == Preloaded(d, Page(d, DOMAIN d["alerts"], offset, limit))

ListTotal(d) == Cardinality(DOMAIN d["alerts"])

\* alertStore.ListByStatus(ctx, status, offset, limit): the page and the total.
ListByStatus(d, status, offset, limit) ==
    Preloaded(d, Page(d, WithStatus(d, status), offset, limit))

ListByStatusTotal(d, status) == Cardinality(WithStatus(d, status))

\* One iteration of the loop of SyncDatabaseToSLS over dbAlert `a`: the
\* gateway's GetAlertByName, then its UpdateAlert or CreateAlert; none of
\* them looks at ctx.
PushStep(sy, a, exists, fails) ==
    IF fails
    THEN ItemFailed(sy, IF exists THEN "slsUpdate" ELSE "slsCreate", a.name,
                    IF exists THEN "slsUpdate" ELSE "slsCreate")
    ELSE ItemSynced(sy, IF exists THEN "slsUpdate" ELSE "slsCreate", a.name)

\* syncService.GetSyncStatus.  fetchErr and countErr are the errors of
\* slsService.GetAlerts and alertStore.Count ("" is nil); the one variable
\* err holds the first and then the second.
GetSyncStatus(d, list, fetchErr, countErr) ==
    LET slsCount == IF fetchErr = "" THEN Len(list) ELSE 0
        err      == countErr
    IN  IF err # ""
        THEN [ op |-> "GetSyncStatus", ok |-> FALSE, fetchErr |-> fetchErr,
               fetched |-> Len(list), status |-> "", lastError |-> "",
               slsAlertCount |-> 0, dbAlertCount |-> 0 ]
        ELSE [ op |-> "GetSyncStatus", ok |-> TRUE, fetchErr |-> fetchErr,
               fetched |-> Len(list),
               status |-> IF err # "" THEN "sls_connection_failed" ELSE "healthy",
               lastError |-> IF err # "" THEN err ELSE "",
               slsAlertCount |-> slsCount,
               dbAlertCount |-> Cardinality(DOMAIN d["alerts"]) ]

\* SLSHandler.GetSLSStatus.  When main could not build the SLS client the
\* handler is the empty struct and h.slsService is a nil interface: the call
\* of GetAlerts on it panics, and gin's Recovery answers 500.
GetSLSStatus(wired, fetchErr) ==
    IF ~wired
    THEN [ op |-> "GetSLSStatus", wired |-> wired, fetchErr |-> fetchErr,
           panic |-> TRUE, code |-> 500, status |-> "" ]
    ELSE [ op |-> "GetSLSStatus", wired |-> wired, fetchErr |-> fetchErr,
           panic |-> FALSE, code |-> 200,
           status |-> IF fetchErr # "" THEN "disconnected" ELSE "connected" ]

(***************************** specification *******************************)
Idle == [op |-> "none", err |-> FALSE, at |-> "", tx |-> FALSE,
         in |-> [shape |-> "bare", name |-> "", id |-> 0], id |-> 0, n |-> 0,
         order |-> << >>]

Init ==
    /\ db = EmptyDB
    /\ seq = [tbl \in Tables |-> 0]
    /\ calls = 0
    /\ last = Idle
    /\ pc = [w \in Workers |-> "idle"]
    /\ req = [w \in Workers |-> Idle.in]
    /\ sync = SyncIdle

CreateFaults ==
    { "", "alert", "configuration", "evalCondition", "severityConfigs",
      "joinConfigs", "schedule", "tags", "queries", "relationIDs" }
    \cup DOMAIN BlockTables

\* The outcome of a call, for the properties: the operation, its input, the
\* error it returned, the statement that failed, whether a transaction was
\* begun, the root identity concerned, an alternating bit that tells two
\* equal calls in a row apart, and, for a Create, the statements that wrote.
Outcome(op, in, r) ==
    [ op |-> op, err |-> r.err, at |-> r.at, tx |-> TRUE, in |-> in,
      id |-> IF op = "create" /\ r.err THEN 0 ELSE r.id, n |-> 1 - last.n,
      order |-> IF op = "create" THEN r.log ELSE << >> ]

\* A store call with its result: an injected fault is one that was reached.
Commit(op, in, fault, r) ==
    /\ calls < MaxCalls
    /\ fault # "" => r.at = fault
    /\ db' = r.db
    /\ seq' = r.seq
    /\ calls' = calls + 1
    /\ last' = Outcome(op, in, r)
    /\ UNCHANGED <<pc, req, sync>>

Input(shape, name, id) == [shape |-> shape, name |-> name, id |-> id]

\* A direct call of alertStore.CreateWithTransaction.
StoreCreate ==
    \E name \in Names, shape \in StoreShapes, fault \in CreateFaults :
       /\ seq["alerts"] < MaxAlerts
       /\ Commit("create", Input(shape, name, 0), fault,
                 CreateWithTransaction(db, seq, Aggregate(Input(shape, name, 0)), fault))

UpdateFaults ==
    { "", "alert", "getConfigID", "deleteSeverity", "deleteJoin",
      "getExistingConfigID", "configuration", "getSlot", "slot", "evalCondition",
      "severityConfigs", "joinConfigs", "deleteSchedule", "schedule",
      "deleteTags", "tags", "deleteQueries", "queries", "relationIDs" }
    \cup DOMAIN BlockTables

DeleteFaults ==
    { "", "getConfigID", "deleteSeverity", "deleteJoin", "deleteConfiguration",
      "deleteSchedule", "deleteTags", "deleteQueries", "deleteAlert" }

\* A direct call of alertStore.UpdateWithTransaction.
StoreUpdate ==
    \E id \in 1..MaxAlerts, name \in Names, shape \in StoreShapes, fault \in UpdateFaults :
       Commit("update", Input(shape, name, id), fault,
              UpdateWithTransaction(db, seq, Aggregate(Input(shape, name, id)), fault))

\* A direct call of alertStore.Delete.
StoreDelete ==
    \E id \in 1..MaxAlerts, fault \in DeleteFaults :
       Commit("delete", Input("bare", "", id), fault, StoreDeleteTx(db, seq, id, fault))

Next == StoreCreate \/ StoreUpdate \/ StoreDelete

Spec == Init /\ [][Next]_vars

(***************************** service calls ********************************)
\* The names and identities a service caller may send.
SvcNames == Names \cup { "" }
SvcIds == 0..MaxAlerts

\* A call refused before the store is asked to write.
Refused(op, in, why) ==
    [ op |-> op, err |-> TRUE, at |-> why, tx |-> FALSE, in |-> in, id |-> in.id,
      n |-> 1 - last.n, order |-> << >> ]

\* A service call up to its store call: refused, or left pending on the worker.
Enter(w, op, in, why) ==
    /\ pc[w] = "idle"
    /\ calls < MaxCalls
    /\ calls' = calls + 1
    /\ UNCHANGED <<db, seq, sync>>
    /\ IF why # ""
       THEN /\ last' = Refused(op, in, why)
            /\ UNCHANGED <<pc, req>>
       ELSE /\ pc' = [pc EXCEPT ![w] = op]
            /\ req' = [req EXCEPT ![w] = in]
            /\ UNCHANGED last

\* The store call of a pending service call.
Leave(w, op, r) ==
    /\ pc[w] = op
    /\ db' = r.db
    /\ seq' = r.seq
    /\ last' = Outcome(op, req[w], r)
    /\ pc' = [pc EXCEPT ![w] = "idle"]
    /\ req' = [req EXCEPT ![w] = Idle.in]
    /\ UNCHANGED <<calls, sync>>

\* alertService.CreateAlert, lines 35-46.
CreateAlertCheck(w) ==
    \E name \in SvcNames, shape \in SvcShapes :
       /\ seq["alerts"] < MaxAlerts
       /\ Enter(w, "create", Input(shape, name, 0),
                CreateAlertRefusal(db, Aggregate(Input(shape, name, 0))))

\* alertService.CreateAlert, line 48.
CreateAlertStore(w) ==
    Leave(w, "create", CreateWithTransaction(db, seq, Aggregate(req[w]), ""))

\* alertService.UpdateAlert, lines 80-96.
UpdateAlertCheck(w) ==
    \E id \in SvcIds, name \in SvcNames, shape \in SvcShapes :
       Enter(w, "update", Input(shape, name, id),
             UpdateAlertRefusal(db, Aggregate(Input(shape, name, id))))

\* alertService.UpdateAlert, line 99.
UpdateAlertStore(w) ==
    Leave(w, "update", UpdateWithTransaction(db, seq, Aggregate(req[w]), ""))

\* alertService.DeleteAlert, lines 103-112.
DeleteAlertCheck(w) ==
    \E id \in SvcIds :
       Enter(w, "delete", Input("bare", "", id), DeleteAlertRefusal(db, id))

\* alertService.DeleteAlert, line 114.
DeleteAlertStore(w) ==
    Leave(w, "delete", StoreDeleteTx(db, seq, req[w].id, ""))

SvcNext ==
    \E w \in Workers :
       \/ CreateAlertCheck(w)
       \/ CreateAlertStore(w)
       \/ UpdateAlertCheck(w)
       \/ UpdateAlertStore(w)
       \/ DeleteAlertCheck(w)
       \/ DeleteAlertStore(w)

SvcSpec == Init /\ [][SvcNext]_vars

(***************************** reconciliation calls ************************)
\* The process after main: the store is empty, and the SLS client was built
\* or was not.
SyncInit ==
    /\ db = EmptyDB
    /\ seq = [tbl \in Tables |-> 0]
    /\ calls = 0
    /\ last = Idle
    /\ pc = [w \in Workers |-> "idle"]
    /\ req = [w \in Workers |-> Idle.in]
    /\ \E wired \in BOOLEAN : sync = [SyncIdle EXCEPT !.wired = wired]

\* The storage faults injected into the transaction of one item, and the
\* errors of the remote listing and of the local count.
SyncFaults == { "", "alert" }
FetchErrs == { "", "unreachable" }
CountErrs == { "", "count" }

\* The slsAlert of a remote item.
Incoming(it) == Aggregate(Input(it.shape, it.name, 0))

\* SyncSLSToDatabase, lines 48-59.
PullStart ==
    /\ sync.wired
    /\ sync.phase = "idle"
    /\ sync.runs < MaxSyncs
    /\ \E fetchErr \in FetchErrs, l \in RemoteLists :
          sync' = IF fetchErr # "" THEN ListFailed(sync, "pull")
                  ELSE StartBatch(sync, "pull", l)
    /\ UNCHANGED <<db, seq, calls, last, pc, req>>

\* SyncSLSToDatabase, lines 61-92: one iteration.
PullItem ==
    /\ sync.phase = "pull"
    /\ sync.i < Len(sync.items)
    /\ \E fault \in SyncFaults :
          /\ fault # "" =>
                PullStep(db, seq, sync, Incoming(sync.items[sync.i + 1]), fault).at = fault
          /\ db' = PullStep(db, seq, sync, Incoming(sync.items[sync.i + 1]), fault).db
          /\ seq' = PullStep(db, seq, sync, Incoming(sync.items[sync.i + 1]), fault).seq
          /\ sync' = PullStep(db, seq, sync, Incoming(sync.items[sync.i + 1]), fault).sync
    /\ UNCHANGED <<calls, last, pc, req>>

\* SyncSLSToDatabase, lines 94-101.
PullFinish ==
    /\ sync.phase = "pull"
    /\ sync.i = Len(sync.items)
    /\ sync' = [sync EXCEPT !.phase = "done",
                            !.ret = SyncReturn("pull", sync.failedCount, sync.lastError)]
    /\ UNCHANGED <<db, seq, calls, last, pc, req>>

\* The dbAlerts of SyncDatabaseToSLS, by what the loop reads of them.
Listed(rows) == [ k \in DOMAIN rows |-> [ name |-> rows[k].name, shape |-> "bare" ] ]

\* SyncDatabaseToSLS, lines 106-117.
PushStart ==
    /\ sync.wired
    /\ sync.phase = "idle"
    /\ sync.runs < MaxSyncs
    /\ \E listErr \in CountErrs :
          sync' = IF listErr # "" THEN ListFailed(sync, "push")
                  ELSE StartBatch(sync, "push", Listed(List(db, 0, ListLimit)))
    /\ UNCHANGED <<db, seq, calls, last, pc, req>>

\* SyncDatabaseToSLS, lines 119-142: one iteration.
PushItem ==
    /\ sync.phase = "push"
    /\ sync.i < Len(sync.items)
    /\ \E exists \in BOOLEAN, fails \in BOOLEAN :
          sync' = PushStep(sync, sync.items[sync.i + 1], exists, fails)
    /\ UNCHANGED <<db, seq, calls, last, pc, req>>

\* SyncDatabaseToSLS, lines 144-150.
PushFinish ==
    /\ sync.phase = "push"
    /\ sync.i = Len(sync.items)
    /\ sync' = [sync EXCEPT !.phase = "done",
                            !.ret = SyncReturn("push", sync.failedCount, sync.lastError)]
    /\ UNCHANGED <<db, seq, calls, last, pc, req>>

\* SLSHandler.SyncSLSAlerts and SyncDatabaseToSLS after the service call: the
\* response is written from the returned error and the request is over.
Respond ==
    /\ sync.phase = "done"
    /\ sync' = [SyncIdle EXCEPT !.wired = sync.wired, !.runs = sync.runs]
    /\ UNCHANGED <<db, seq, calls, last, pc, req>>

\* The caller of a batch cancels its context between two iterations.
Cancel ==
    /\ sync.phase \in { "pull", "push" }
    /\ sync.i < Len(sync.items)
    /\ ~sync.canceled
    /\ sync' = [sync EXCEPT !.canceled = TRUE]
    /\ UNCHANGED <<db, seq, calls, last, pc, req>>

\* GET /sls/sync/status on a wired process.
SyncStatusCall ==
    /\ sync.wired
    /\ sync.phase = "idle"
    /\ \E l \in RemoteLists, fetchErr \in FetchErrs, countErr \in CountErrs :
          sync' = [sync EXCEPT !.status = GetSyncStatus(db, l, fetchErr, countErr)]
    /\ UNCHANGED <<db, seq, calls, last, pc, req>>

\* GET /sls/status.
SLSStatusCall ==
    /\ sync.phase = "idle"
    /\ \E fetchErr \in FetchErrs :
          sync' = [sync EXCEPT !.status = GetSLSStatus(sync.wired, fetchErr)]
    /\ UNCHANGED <<db, seq, calls, last, pc, req>>

\* POST /alerts while the engine is at rest: alertService.CreateAlert as one
\* step, there being no second caller.  A refused call changes nothing.
LocalCreate ==
    /\ sync.phase = "idle"
    /\ \E name \in SyncNames :
          /\ CreateAlertRefusal(db, Aggregate(Input("bare", name, 0))) = ""
          /\ db' = CreateWithTransaction(db, seq, Aggregate(Input("bare", name, 0)), "").db
          /\ seq' = CreateWithTransaction(db, seq, Aggregate(Input("bare", name, 0)), "").seq
    /\ UNCHANGED <<calls, last, pc, req, sync>>

SyncNext ==
    \/ PullStart
    \/ PullItem
    \/ PullFinish
    \/ PushStart
    \/ PushItem
    \/ PushFinish
    \/ Respond
    \/ Cancel
    \/ SyncStatusCall
    \/ SLSStatusCall
    \/ LocalCreate

SyncSpec == SyncInit /\ [][SyncNext]_vars

(***************************** properties **********************************)
\* The step is a call of `op` that has just returned.
Returned(op) == last'.n # last.n /\ last'.op = op

\* A row, a pointer to a row and a list of rows without their identities.
IdFields ==
    { "id", "alertID", "alertConfigID", "configurationID", "scheduleID",
      "evalConditionID" } \cup { BlockSlot[b] : b \in DOMAIN BlockSlot }

Plain(r) == [f \in DOMAIN r \ IdFields |-> r[f]]

PlainPtr(p) == IF IsNil(p) THEN None ELSE Some(Plain(Deref(p)))

PlainAll(rs) == [i \in DOMAIN rs |-> Plain(rs[i])]

PlainSeverity(sv) == [Plain(sv) EXCEPT !.evalCondition = PlainPtr(sv.evalCondition)]

PlainConfiguration(p) ==
    IF IsNil(p) THEN None
    ELSE LET c == Deref(p)
         IN  Some([f \in DOMAIN c \ IdFields |->
                     IF f \in DOMAIN BlockTables THEN PlainPtr(c[f])
                     ELSE IF f = "severityConfigs"
                     THEN [i \in DOMAIN c[f] |-> PlainSeverity(c[f][i])]
                     ELSE IF f = "joinConfigs" THEN PlainAll(c[f])
                     ELSE c[f]])

\* An aggregate, sent or read, without its identities.
PlainAggregate(a) ==
    [f \in DOMAIN a \ IdFields |->
        IF f = "configuration" THEN PlainConfiguration(a[f])
        ELSE IF f = "schedule" THEN PlainPtr(a[f])
        ELSE IF f \in { "tags", "queries" } THEN PlainAll(a[f])
        ELSE a[f]]

\* The stored tags of an aggregate as (alertId, tagType, tagKey, tagValue).
TagSet(d, id) ==
    { << r.alertID, r.tagType, r.tagKey, r.tagValue >> :
         r \in { d["alert_tags"][i] : i \in OwnedBy(d, "alert_tags", id) } }

\* C1: when CreateWithTransaction fails at any statement, the tables are as
\* they were before the call, and a name that was not stored before is still
\* not found by GetByName.
C1_CreateAllOrNothing ==
    [][ (Returned("create") /\ last'.err)
          => /\ db' = db
             /\ IsNil(GetByName(db, last'.in.name))
                   => IsNil(GetByName(db', last'.in.name)) ]_vars

\* A Create that failed at its last statement, the relation-id patch, after
\* every row of a full aggregate had been written; the name is not found.
C1_Witness ==
    /\ last.op = "create" /\ last.err /\ last.at = "relationIDs"
    /\ last.in.shape = "full"
    /\ IsNil(GetByName(db, last.in.name))

\* C2: after a successful Create of an aggregate with all seven sub-blocks,
\* severities with eval conditions, joins, schedule, tags and queries, GetByID
\* and GetByName return the values that were sent, identities aside.
C2_RoundTrip ==
    (last.op = "create" /\ ~last.err /\ last.in.shape = "full")
       => /\ ~IsNil(GetByID(db, last.id))
          /\ PlainAggregate(Deref(GetByID(db, last.id)))
                = PlainAggregate(Aggregate(last.in))
          /\ GetByName(db, last.in.name) = GetByID(db, last.id)

\* C3: after a successful Delete(id), GetByID(id) finds nothing, no schedule,
\* tag or query row has alertId = id, and no severity or join row refers to a
\* configuration the aggregate had.
C3_CascadeDelete ==
    [][ (Returned("delete") /\ ~last'.err)
          => LET id   == last'.id
                 cfgs == OwnedBy(db, "alert_configurations", id)
             IN  /\ IsNil(GetByID(db', id))
                 /\ \A tbl \in { "alert_schedules", "alert_tags", "alert_queries" } :
                       OwnedBy(db', tbl, id) = {}
                 /\ \A tbl \in { "severity_configurations", "join_configurations" } :
                       \A c \in cfgs : OfConfig(db', tbl, c) = {} ]_vars

\* The second call deleted the one aggregate, which had severities, joins,
\* a schedule, tags and queries; nothing is left.
C3_Witness ==
    /\ last.op = "delete" /\ ~last.err /\ calls = 2
    /\ \A tbl \in { "alerts", "severity_configurations", "join_configurations",
                    "alert_schedules", "alert_tags", "alert_queries" } :
          seq[tbl] > 0 /\ DOMAIN db[tbl] = {}

\* C4: after a successful Update the stored tags and queries of the aggregate
\* are exactly the supplied lists, the empty list included, and the stored
\* schedule is the supplied one.
C4_UpdateReplaces ==
    (last.op = "update" /\ ~last.err)
       => LET a == Aggregate(last.in)
          IN  /\ PlainAll(HasMany(db, "alert_tags", OwnedBy(db, "alert_tags", last.id)))
                    = PlainAll(a.tags)
              /\ PlainAll(HasMany(db, "alert_queries",
                                  OwnedBy(db, "alert_queries", last.id)))
                    = PlainAll(a.queries)
              /\ ~IsNil(a.schedule)
                    => { Plain(db["alert_schedules"][i]) :
                            i \in OwnedBy(db, "alert_schedules", last.id) }
                          = { Plain(Deref(a.schedule)) }

\* C5: two successful Updates in a row of the same aggregate with the same
\* tag list leave the same set of tag rows, each row once.
C5_IdempotentTags ==
    [][ ( /\ last.op = "update" /\ ~last.err
          /\ Returned("update") /\ ~last'.err
          /\ last'.id = last.id
          /\ Aggregate(last'.in).tags = Aggregate(last.in).tags )
          => /\ TagSet(db', last.id) = TagSet(db, last.id)
             /\ Cardinality(OwnedBy(db', "alert_tags", last.id))
                   = Cardinality(TagSet(db', last.id))
             /\ Cardinality(OwnedBy(db, "alert_tags", last.id))
                   = Cardinality(TagSet(db, last.id)) ]_vars

\* An aggregate created without tags and then updated twice with the one-tag
\* list: the root has no createTime, two tag rows were ever inserted, and the
\* one stored is the second.
C5_Witness ==
    /\ last.op = "update" /\ ~last.err /\ last.in.shape = "alt" /\ calls = 3
    /\ seq["alerts"] = 1 /\ seq["alert_tags"] = 2
    /\ last.id \in DOMAIN db["alerts"]
    /\ IsNil(db["alerts"][last.id].createTime)
    /\ OwnedBy(db, "alert_tags", last.id) = { 2 }

\* C6: when UpdateWithTransaction fails at any statement, the tables are as
\* they were before the call.
C6_UpdateAllOrNothing ==
    [][ (Returned("update") /\ last'.err) => db' = db ]_vars

\* An Update that failed at the insert of the tags, after the old tags had
\* been deleted; the old tags are there.
C6_Witness ==
    /\ last.op = "update" /\ last.err /\ last.at = "tags"
    /\ OwnedBy(db, "alert_tags", last.id) # {}

\* C7: every configuration, schedule, tag and query row has an alertId that
\* is the key of a root row.
C7_ChildrenHaveRoot ==
    \A tbl \in { "alert_configurations", "alert_schedules", "alert_tags",
                 "alert_queries" } :
       \A r \in Rows(db, tbl) : r.alertID \in DOMAIN db["alerts"]

\* UpdateAlert passed its checks, the root was deleted, and the store call
\* then ran for the id without a root row.
C7_Witness ==
    /\ last.op = "update" /\ last.tx /\ last.in.shape = "full"
    /\ last.id \in 1..seq["alerts"]
    /\ last.id \notin DOMAIN db["alerts"]

\* C8: at most one root row carries a name, and a CreateAlert whose store
\* call fails leaves the tables as they were.
NameUnique ==
    \A i, j \in DOMAIN db["alerts"] :
       db["alerts"][i].name = db["alerts"][j].name => i = j

C8_NameUniqueUnderRace ==
    /\ []NameUnique
    /\ [][ (Returned("create") /\ last'.err /\ last'.tx) => db' = db ]_vars

\* A CreateAlert that passed the name check and lost at the insert of the
\* root: the name is stored once, by the other call.
C8_Witness ==
    /\ last.op = "create" /\ last.err /\ last.tx /\ last.at = "alert"
    /\ Cardinality({ i \in DOMAIN db["alerts"] :
                        db["alerts"][i].name = last.in.name }) = 1

\* C9: no step changes the name of a root row that exists before and after.
C9_NameImmutable ==
    [][ \A id \in DOMAIN db["alerts"] \cap DOMAIN db'["alerts"] :
           db'["alerts"][id].name = db["alerts"][id].name ]_vars

\* A successful Update that carried another name than the stored one and
\* changed the root.
C9_Witness ==
    /\ last.op = "update" /\ ~last.err
    /\ last.id \in DOMAIN db["alerts"]
    /\ db["alerts"][last.id].name # last.in.name
    /\ db["alerts"][last.id].displayName = Aggregate(last.in).displayName
    /\ db["alerts"][last.id].lastModifiedTime = Some(200)

\* The calls the service must refuse on their fields alone.
Invalid(op, in) ==
    \/ /\ op = "create"
       /\ \/ in.name = ""
          \/ Body(in.shape).displayName = ""
          \/ Body(in.shape).status \notin { "", "ENABLED", "DISABLED" }
    \/ op \in { "update", "delete" } /\ in.id = 0

\* C10: a CreateAlert with an empty name, an empty displayName or a status
\* outside {ENABLED, DISABLED}, and an UpdateAlert or DeleteAlert with id 0,
\* return an error, begin no transaction and leave the tables as they were.
C10_ValidationBeforeWrite ==
    [][ (last'.n # last.n /\ Invalid(last'.op, last'.in))
          => last'.err /\ ~last'.tx /\ db' = db /\ seq' = seq ]_vars

\* A CreateAlert refused for its status while the store holds rows.
C10_Witness ==
    /\ last.op = "create" /\ last.err /\ ~last.tx /\ last.at = "status"
    /\ DOMAIN db["alerts"] # {}

(***************************** change decision *****************************)
\* needsUpdate on its own: every pair of a local copy and an incoming copy,
\* by the fields the function reads.
Times == { None, Some(100), Some(200) }
Titles == { "A", "B" }
Statuses == { "ENABLED", "DISABLED" }
Descriptions == { None, Some("d1"), Some("d2") }

Copies ==
    [ lastModifiedTime : Times, displayName : Titles, status : Statuses,
      description : Descriptions ]

DecisionInit ==
    /\ db = EmptyDB
    /\ seq = [tbl \in Tables |-> 0]
    /\ calls = 0
    /\ last = Idle
    /\ pc = [w \in Workers |-> "idle"]
    /\ req = [w \in Workers |-> Idle.in]
    /\ sync \in [ phase : { "decide" }, existing : Copies, incoming : Copies,
                  decision : { "none" } ]

\* s.needsUpdate(existingAlert, slsAlert), part_004 line 66.
Decide ==
    /\ sync.phase = "decide"
    /\ sync.decision = "none"
    /\ sync' = [sync EXCEPT !.decision =
                   IF needsUpdate(sync.existing, sync.incoming) THEN "update" ELSE "skip"]
    /\ UNCHANGED <<db, seq, calls, last, pc, req>>

DecisionSpec == DecisionInit /\ [][Decide]_vars

(***************************** reconciliation properties *******************)
\* The root row of a name, and the names that have one.
RootByName(d, name) ==
    d["alerts"][CHOOSE i \in DOMAIN d["alerts"] : d["alerts"][i].name = name]

LocalNames(d) == { d["alerts"][i].name : i \in DOMAIN d["alerts"] }

\* The iteration just run by a step of a batch, and the item it was about.
Iterated(phase) == sync.phase = phase /\ sync'.phase = phase /\ sync'.i = sync.i + 1

Current == sync.items[sync.i + 1]

Issued == sync'.issued[Len(sync'.issued)]

\* The number of iterations of the batch that issued `op` and succeeded.
Count(sy, op) ==
    Cardinality({ k \in DOMAIN sy.issued :
                    sy.issued[k].op = op /\ sy.issued[k].err = NoError })

\* The change decision as the claim words it.
Differs(local, incoming) ==
    \/ IsNil(local.lastModifiedTime) \/ IsNil(incoming.lastModifiedTime)
    \/ local.lastModifiedTime # incoming.lastModifiedTime
    \/ local.displayName # incoming.displayName
    \/ local.status # incoming.status
    \/ local.description # incoming.description

\* Each iteration of a pull whose context is live issues the operation the
\* local state calls for, and a successful one leaves the row it should.
PullRouted ==
    Iterated("pull") /\ ~sync.canceled =>
       IF Current.name \notin LocalNames(db)
       THEN /\ Issued.op = "create"
            /\ Issued.err = NoError =>
                  /\ Current.name \in LocalNames(db')
                  /\ Cardinality(DOMAIN db'["alerts"]) = Cardinality(DOMAIN db["alerts"]) + 1
       ELSE IF Differs(RootByName(db, Current.name), Incoming(Current))
       THEN /\ Issued.op = "update"
            /\ Issued.err = NoError =>
                  /\ RootByName(db', Current.name).id = RootByName(db, Current.name).id
                  /\ RootByName(db', Current.name).displayName = Incoming(Current).displayName
                  /\ DOMAIN db'["alerts"] = DOMAIN db["alerts"]
       ELSE Issued.op = "skip" /\ db' = db

\* What the caller of a pull gets back tells how many items were created and
\* how many updated.
PullSummarized ==
    sync.phase = "pull" /\ sync'.phase = "done" =>
       /\ { "created", "updated" } \subseteq DOMAIN sync'.ret
       /\ sync'.ret.created = Count(sync', "create")
       /\ sync'.ret.updated = Count(sync', "update")

\* C11: a pull creates locally the remote items whose name is absent, updates
\* under the existing local id those whose name is present and whose change
\* decision is "update", writes nothing for the others, and returns a summary
\* with the number created and the number updated.
C11_PullRouting == [][PullRouted /\ PullSummarized]_vars

\* The routing half of C11 alone.
PullRoutingOnly == [][PullRouted]_vars

\* A pull of one absent name and one present name under another display
\* name has returned: one created, one updated.
PullOneEach ==
    /\ sync.phase = "done" /\ sync.ret.call = "pull" /\ ~sync.ret.err
    /\ Len(sync.items) = 2
    /\ Count(sync, "create") = 1 /\ sync.createdCount = 1
    /\ Count(sync, "update") = 1 /\ sync.updatedCount = 1

\* The positions of the batch whose iteration failed.
FailedAt(sy) == { k \in DOMAIN sy.issued : sy.issued[k].err # NoError }

\* The local store holds the remote item as it was listed.
Committed(d, it) ==
    /\ it.name \in LocalNames(d)
    /\ RootByName(d, it.name).displayName = Incoming(it).displayName

\* A pull has returned after going through its list.
Pulled == sync.phase = "done" /\ sync.ret.call = "pull" /\ sync.ret.kind # "list"

\* C12: when exactly one item of a pull fails, whatever its position, every
\* other item of the list is committed locally and the call reports one
\* failure.
C12_BatchResilience ==
    Pulled /\ Cardinality(FailedAt(sync)) = 1 =>
       /\ sync.ret.err /\ sync.ret.failed = 1
       /\ \A k \in DOMAIN sync.items :
             k \notin FailedAt(sync) => Committed(db, sync.items[k])

\* A pull of three items whose second item failed in its transaction.
C12_Witness ==
    /\ Pulled /\ Len(sync.items) = 3 /\ FailedAt(sync) = { 2 }
    /\ sync.issued[2].err.at = "alert"
    /\ sync.ret.failed = 1
    /\ Committed(db, sync.items[1]) /\ Committed(db, sync.items[3])

\* The last position of a non-empty set of positions.
Latest(S) == CHOOSE k \in S : \A j \in S : j <= k

\* Every item of the list has had its iteration, in list order.
AllAttempted(sy) ==
    /\ Len(sy.issued) = Len(sy.items)
    /\ \A k \in DOMAIN sy.items : sy.issued[k].name = sy.items[k].name

\* The batch call has returned an error exactly when an item failed, after
\* every item was attempted, with the last failure as its message.
ErrorIffItemFailed(sy) ==
    /\ sy.ret.err <=> FailedAt(sy) # {}
    /\ AllAttempted(sy)
    /\ sy.ret.err =>
          /\ sy.ret.failed = Cardinality(FailedAt(sy))
          /\ sy.ret.last = sy.issued[Latest(FailedAt(sy))].err

\* C13 as stated: a pull or push returns an error exactly when at least one
\* item failed, only after every item was attempted, with the message of the
\* last item failure; without failures it returns success.
C13_AsStated == sync.phase = "done" => ErrorIffItemFailed(sync)

\* C13 as amended: the same, once the batch has obtained its list of items;
\* a batch whose listing fails returns that error with no item attempted.
C13_ErrorIffItemFailed ==
    sync.phase = "done" =>
       IF sync.ret.kind = "list"
       THEN sync.ret.err /\ sync.issued = << >>
       ELSE ErrorIffItemFailed(sync)

\* A pull of three items has returned an error: the first two failed, the
\* third went through, and the message is the second item's.
C13_Witness ==
    /\ Pulled /\ Len(sync.items) = 3 /\ FailedAt(sync) = { 1, 2 }
    /\ sync.ret.err /\ sync.ret.failed = 2
    /\ sync.ret.last.name = sync.items[2].name

\* C14: the error a batch with failures returns carries the batch's four
\* counts: created, updated, skipped and failed.
C14_ErrorCarriesCounts ==
    sync.phase = "done" /\ sync.ret.kind = "failures" =>
       /\ { "created", "updated", "skipped", "failed" } \subseteq DOMAIN sync.ret
       /\ sync.ret.created = Count(sync, "create")
       /\ sync.ret.updated = Count(sync, "update")
       /\ sync.ret.skipped = Count(sync, "skip")
       /\ sync.ret.failed = Cardinality(FailedAt(sync))

\* The copy of the claim's example: lastModifiedTime 100 and no description.
Plain100 ==
    [ lastModifiedTime |-> Some(100), displayName |-> "A", status |-> "ENABLED",
      description |-> None ]

\* C15: the change decision is "update" exactly when a lastModifiedTime is
\* absent, or the two differ, or displayName differs, or status differs, or
\* description differs in presence or value, and "skip" otherwise; two equal
\* copies with lastModifiedTime 100 and no description give "skip".
C15_ChangeDecision ==
    sync.phase = "decide" /\ sync.decision # "none" =>
       /\ sync.decision = (IF Differs(sync.existing, sync.incoming)
                           THEN "update" ELSE "skip")
       /\ sync.existing = Plain100 /\ sync.incoming = Plain100 =>
             sync.decision = "skip"

\* Only the description changed, from none to a value: "update".
C15_Witness ==
    /\ sync.phase = "decide"
    /\ sync.existing = Plain100
    /\ sync.incoming = [Plain100 EXCEPT !.description = Some("d1")]
    /\ sync.decision = "update"

\* The iterations of the batch that called the remote gateway for `name`.
RemoteCalls(sy, name) ==
    { k \in DOMAIN sy.issued :
        sy.issued[k].name = name /\ sy.issued[k].op \in { "slsCreate", "slsUpdate" } }

\* A push has returned after going through its list.
Pushed == sync.phase = "done" /\ sync.ret.call = "push" /\ sync.ret.kind # "list"

\* C16: a push attempts every local aggregate exactly once, by a remote
\* create or a remote update, whatever the number of local root rows.
C16_PushCoversAll ==
    Pushed => \A name \in LocalNames(db) : Cardinality(RemoteCalls(sync, name)) = 1

\* The step is a call of the status operation `op` that has answered.
Answered(op) == sync'.status # sync.status /\ sync'.status.op = op

\* What Status() is to answer for the fetch it made.
StatusFollowsFetch ==
    Answered("GetSyncStatus") /\ sync'.status.ok =>
       IF sync'.status.fetchErr # ""
       THEN /\ sync'.status.status # "healthy"
            /\ sync'.status.lastError = sync'.status.fetchErr
       ELSE /\ sync'.status.status = "healthy"
            /\ sync'.status.slsAlertCount = sync'.status.fetched
            /\ sync'.status.dbAlertCount = Cardinality(DOMAIN db["alerts"])

\* C17: when the remote fetch fails and the local count succeeds, the status
\* returned is not "healthy" and carries the fetch error; when the fetch
\* succeeds it is "healthy" with the length of the fetched list as remote
\* count and the number of root rows as local count.
C17_StatusFollowsFetch == [][StatusFollowsFetch]_vars

\* C18: when the remote gateway cannot be reached, or its client could not
\* be built at startup, the connection-status operation answers
\* "disconnected" and does not panic.
C18_RemoteDownIsReported ==
    sync.status.op = "GetSLSStatus"
    /\ (~sync.status.wired \/ sync.status.fetchErr # "") =>
       ~sync.status.panic /\ sync.status.status = "disconnected"

\* The same for a process that did build its client.
WiredDownIsReported ==
    sync.status.op = "GetSLSStatus" /\ sync.status.wired
    /\ sync.status.fetchErr # "" =>
       ~sync.status.panic /\ sync.status.status = "disconnected"

\* Local persistence on a process without SLS client: an alert was created.
UnwiredCreates == ~sync.wired /\ DOMAIN db["alerts"] # {}

\* The root rows of d are still in e, unchanged.
RowsKept(d, e) ==
    \A i \in DOMAIN d["alerts"] :
       i \in DOMAIN e["alerts"] /\ e["alerts"][i] = d["alerts"][i]

\* Once the context of a batch is canceled, no iteration is run for the
\* remaining items, and what was committed stays.
CancelStopsBatch ==
    sync.canceled /\ sync.phase \in { "pull", "push" } =>
       sync'.issued = sync.issued /\ RowsKept(db, db')

\* C19: after the caller's context is canceled during a pull or a push the
\* engine issues no per-item operation for the remaining items, and every
\* item committed before stays committed.
C19_CancelStopsBatch == [][CancelStopsBatch]_vars

\* The second half of C19 alone.
CancelKeepsCommitted ==
    [][sync.canceled /\ sync.phase \in { "pull", "push" } => RowsKept(db, db')]_vars

\* A push went on to write remotely after its context was canceled.
PushedAfterCancel ==
    /\ Pushed
    /\ \E k \in DOMAIN sync.issued :
          sync.issued[k].canceled /\ sync.issued[k].err = NoError

(***************************** create order ********************************)
\* The place of a write in the order of the claim: root, sub-blocks,
\* Configuration row, severities with their eval conditions, joins, schedule,
\* tags, queries, patch of the root.
ClaimedPlace(step) ==
    CASE step = "alert" -> 1
      [] step \in DOMAIN BlockTables -> 2
      [] step = "configuration" -> 3
      [] step \in { "evalCondition", "severityConfigs" } -> 4
      [] step = "joinConfigs" -> 5
      [] step = "schedule" -> 6
      [] step = "tags" -> 7
      [] step = "queries" -> 8
      [] step = "relationIDs" -> 9

\* The same with the Configuration row before the sub-blocks.
CodedPlace(step) ==
    CASE step = "configuration" -> 2
      [] step \in DOMAIN BlockTables -> 3
      [] OTHER -> ClaimedPlace(step)

\* Each eval condition is written before a severity row.
EvalFirst(order) ==
    \A i \in DOMAIN order :
       order[i] = "evalCondition" =>
          \E j \in DOMAIN order : j > i /\ order[j] = "severityConfigs"

\* A Create has just committed.
Created == last.op = "create" /\ ~last.err

\* C20: the writes of one Create run root row, each present sub-block, the
\* Configuration row, severities (eval condition first) and joins, schedule,
\* tags, queries, patch of the root's ids; every sub-block row is written
\* before the Configuration row.
C20_CreateOrder ==
    Created =>
       /\ \A i, j \in DOMAIN last.order :
             i < j => ClaimedPlace(last.order[i]) <= ClaimedPlace(last.order[j])
       /\ EvalFirst(last.order)

\* The order the store follows: as claimed but for the Configuration row,
\* which goes before the sub-blocks.
CreateOrderAsCoded ==
    Created =>
       /\ \A i, j \in DOMAIN last.order :
             i < j => CodedPlace(last.order[i]) <= CodedPlace(last.order[j])
       /\ EvalFirst(last.order)

(***************************** sub-block slots *****************************)
\* The Configuration row of an alert, the one of lowest key when several.
ConfigRowOf(d, alertID) ==
    d["alert_configurations"][Deref(FirstConfigID(d, alertID))]

\* The Configuration the last call was given, as a pointer.
Supplied == Body(last.in.shape).configuration

\* Slot b of the row cfg names a row of the sub-block's table written for
\* that Configuration.
SlotFilled(d, cfg, b) ==
    \E x \in OfConfig(d, BlockTables[b], cfg.id) : cfg[BlockSlot[b]] = Some(x)

\* C21: after a successful Create of an aggregate with a Configuration, the
\* committed Configuration row's slot of every supplied sub-block holds the
\* key of that sub-block's row, and the slot of every absent sub-block is
\* null.
C21_SlotsFilled ==
    (Created /\ ~IsNil(Supplied)) =>
       /\ ~IsNil(FirstConfigID(db, last.id))
       /\ \A b \in DOMAIN BlockTables :
             IF IsNil(Deref(Supplied)[b])
             THEN IsNil(ConfigRowOf(db, last.id)[BlockSlot[b]])
             ELSE SlotFilled(db, ConfigRowOf(db, last.id), b)

\* What the store leaves instead: the sub-block rows exist and carry the
\* Configuration's key, and every slot of the Configuration row is null.
SlotsLeftNull ==
    (Created /\ ~IsNil(Supplied)) =>
       /\ ~IsNil(FirstConfigID(db, last.id))
       /\ \A b \in DOMAIN BlockTables :
             /\ IsNil(ConfigRowOf(db, last.id)[BlockSlot[b]])
             /\ ~IsNil(Deref(Supplied)[b])
                   => OfConfig(db, BlockTables[b], ConfigRowOf(db, last.id).id) # {}

(***************************** replace-all *********************************)
\* The rows of a table that belong to a Configuration, in key order.
RowsOfConfig(d, tbl, cfgID) ==
    [ i \in 1..Cardinality(OfConfig(d, tbl, cfgID)) |->
        d[tbl][SortedIds(OfConfig(d, tbl, cfgID))[i]] ]

\* The stored severities are the supplied ones, one row each, in order.
SeveritiesAre(rows, sevs) ==
    /\ Len(rows) = Len(sevs)
    /\ \A i \in 1..Len(sevs) :
          /\ rows[i].severity = sevs[i].severity
          /\ IsNil(sevs[i].evalCondition) => rows[i].evalConditionID = sevs[i].evalConditionID
          /\ ~IsNil(sevs[i].evalCondition) => ~IsNil(rows[i].evalConditionID)

\* The stored joins are the supplied ones, one row each, in order.
JoinsAre(rows, js) ==
    /\ Len(rows) = Len(js)
    /\ \A i \in 1..Len(js) :
          rows[i].joinType = js[i].joinType /\ rows[i].joinConfig = js[i].joinConfig

\* The rows of tbl that belonged to the aggregate's Configuration before the
\* step are gone after it.
OldRowsGone(tbl, alertID) ==
    IsNil(FirstConfigID(db, alertID))
    \/ OfConfig(db, tbl, Deref(FirstConfigID(db, alertID))) \cap DOMAIN db'[tbl] = {}

\* An Update given a Configuration has just committed.
UpdatedWithConfiguration ==
    /\ Returned("update") /\ ~last'.err
    /\ ~IsNil(Body(last'.in.shape).configuration)

ReplacedAll ==
    UpdatedWithConfiguration =>
       /\ ~IsNil(FirstConfigID(db', last'.in.id))
       /\ SeveritiesAre(RowsOfConfig(db', "severity_configurations",
                                     Deref(FirstConfigID(db', last'.in.id))),
                        Deref(Body(last'.in.shape).configuration).severityConfigs)
       /\ JoinsAre(RowsOfConfig(db', "join_configurations",
                                Deref(FirstConfigID(db', last'.in.id))),
                   Deref(Body(last'.in.shape).configuration).joinConfigs)
       /\ OldRowsGone("severity_configurations", last'.in.id)
       /\ OldRowsGone("join_configurations", last'.in.id)

\* C22: after a successful Update whose aggregate carries a Configuration,
\* the Severity and Join rows of that Configuration are exactly the supplied
\* ones, possibly none, and every row that was there before is gone.
C22_ReplaceAll == [][ReplacedAll]_vars

\* An Update given a Configuration without severities or joins has emptied
\* the one Configuration ever stored, which had some of each.
C22_Witness ==
    /\ last.op = "update" /\ ~last.err /\ last.in.shape = "cfgOnly"
    /\ ~IsNil(FirstConfigID(db, last.in.id))
    /\ OfConfig(db, "severity_configurations", Deref(FirstConfigID(db, last.in.id))) = {}
    /\ OfConfig(db, "join_configurations", Deref(FirstConfigID(db, last.in.id))) = {}
    /\ seq["severity_configurations"] > 0 /\ seq["join_configurations"] > 0
    /\ seq["alert_configurations"] = 1

(***************************** sub-block upsert ****************************)
\* The keys a step has added to a table.
NewIds(tbl) == DOMAIN db'[tbl] \ DOMAIN db[tbl]

\* The eval conditions an Update of configuration c inserts.
EvalCount(c) ==
    Cardinality({ i \in 1..Len(c.severityConfigs) :
                     ~IsNil(c.severityConfigs[i].evalCondition) })

\* The rows a step inserts into a sub-block's table besides the sub-block.
OtherInserts(b, c) == IF b = "conditionConfig" THEN EvalCount(c) ELSE 0

\* A slot that upsert treats as empty.
SlotEmpty(slot) == IsNil(slot) \/ slot = Some(0)

\* The row carries the supplied values in the columns upsert writes.
Carries(row, b, config) == \A f \in UpsertColumns[b] : row[f] = config[f]

\* Sub-block b of Configuration row cfg (before) and cfg2 (after) across an
\* Update that supplied c.
Upserted(cfg, cfg2, b, c) ==
    IF SlotEmpty(cfg[BlockSlot[b]])
    THEN /\ Cardinality(NewIds(BlockTables[b])) = 1 + OtherInserts(b, c)
         /\ ~IsNil(cfg2[BlockSlot[b]])
         /\ Deref(cfg2[BlockSlot[b]]) \in NewIds(BlockTables[b])
         /\ Carries(db'[BlockTables[b]][Deref(cfg2[BlockSlot[b]])], b, Deref(c[b]))
    ELSE /\ Cardinality(NewIds(BlockTables[b])) = OtherInserts(b, c)
         /\ cfg2[BlockSlot[b]] = cfg[BlockSlot[b]]
         /\ Deref(cfg[BlockSlot[b]]) \in DOMAIN db[BlockTables[b]]
               => Carries(db'[BlockTables[b]][Deref(cfg[BlockSlot[b]])], b, Deref(c[b]))

UpsertedAll ==
    UpdatedWithConfiguration =>
       /\ Cardinality(OwnedBy(db', "alert_configurations", last'.in.id)) >= 1
       /\ IsNil(FirstConfigID(db, last'.in.id))
             => /\ Cardinality(OwnedBy(db', "alert_configurations", last'.in.id)) = 1
                /\ NewIds("alert_configurations")
                      = OwnedBy(db', "alert_configurations", last'.in.id)
       /\ ~IsNil(FirstConfigID(db, last'.in.id))
             => /\ NewIds("alert_configurations") = {}
                /\ \A b \in DOMAIN BlockTables :
                      ~IsNil(Deref(Body(last'.in.shape).configuration)[b])
                         => Upserted(ConfigRowOf(db, last'.in.id),
                                     ConfigRowOf(db', last'.in.id), b,
                                     Deref(Body(last'.in.shape).configuration))

\* C23: in an Update with a Configuration, a supplied sub-block whose slot
\* in the stored Configuration row is empty is inserted as one new row and
\* the slot set to it; one whose slot is occupied inserts no row, leaves the
\* slot as it is and has the referenced row updated in place; when the
\* aggregate has no Configuration row, one is created.
C23_SubBlockUpsert == [][UpsertedAll]_vars

\* An Update has rewritten in place the condition row its slot refers to:
\* the row is older than the newest condition row and carries the values
\* of the `alt` aggregate.
C23_Witness ==
    /\ last.op = "update" /\ ~last.err /\ last.in.shape = "alt"
    /\ ~IsNil(FirstConfigID(db, last.in.id))
    /\ ~IsNil(ConfigRowOf(db, last.in.id).conditionConfigID)
    /\ Deref(ConfigRowOf(db, last.in.id).conditionConfigID)
          < seq["condition_configurations"]
    /\ Carries(db["condition_configurations"]
                  [Deref(ConfigRowOf(db, last.in.id).conditionConfigID)],
               "conditionConfig",
               Deref(Deref(Body("alt").configuration).conditionConfig))

(***************************** list calls **********************************)
\* The store written by Creates and Updates that meet no fault, and read by
\* List and ListByStatus.
MaxOffset == 2
MaxLimit == 2

\* The outcome of a list call: the arguments, the page and the total.
ListOutcome(op, status, offset, limit, page, total) ==
    [ op |-> op, err |-> FALSE, at |-> "", tx |-> FALSE, in |-> Idle.in,
      id |-> 0, n |-> 1 - last.n, order |-> << >>,
      status |-> status, offset |-> offset, limit |-> limit,
      page |-> page, total |-> total ]

\* The bodies sent in calls that meet no fault.
PlainShapes == StoreShapes \cup { "tagged" }

\* alertStore.CreateWithTransaction, no statement failing.
PlainCreate ==
    \E name \in Names, shape \in PlainShapes :
       /\ seq["alerts"] < MaxAlerts
       /\ Commit("create", Input(shape, name, 0), "",
                 CreateWithTransaction(db, seq, Aggregate(Input(shape, name, 0)), ""))

\* alertStore.UpdateWithTransaction, no statement failing.
PlainUpdate ==
    \E id \in 1..MaxAlerts, name \in Names, shape \in PlainShapes :
       Commit("update", Input(shape, name, id), "",
              UpdateWithTransaction(db, seq, Aggregate(Input(shape, name, id)), ""))

ListCall ==
    \E offset \in 0..MaxOffset, limit \in 1..MaxLimit :
       /\ calls < MaxCalls
       /\ calls' = calls + 1
       /\ last' = ListOutcome("list", "", offset, limit,
                              List(db, offset, limit), ListTotal(db))
       /\ UNCHANGED <<db, seq, pc, req, sync>>

ListByStatusCall ==
    \E status \in { "ENABLED", "DISABLED" }, offset \in 0..MaxOffset, limit \in 1..MaxLimit :
       /\ calls < MaxCalls
       /\ calls' = calls + 1
       /\ last' = ListOutcome("listByStatus", status, offset, limit,
                              ListByStatus(db, status, offset, limit),
                              ListByStatusTotal(db, status))
       /\ UNCHANGED <<db, seq, pc, req, sync>>

ListNext == PlainCreate \/ PlainUpdate \/ ListCall \/ ListByStatusCall

ListSpec == Init /\ [][ListNext]_vars

\* A list call has just returned.
ListReturned == last.op \in { "list", "listByStatus" }

\* The root rows a list call selects from.
Matching ==
    IF last.op = "list" THEN DOMAIN db["alerts"] ELSE WithStatus(db, last.status)

\* The page is in creation order, newest first, within the limit, made of
\* matching rows, and the total counts every matching row.
PagedAndCounted ==
    /\ Len(last.page) <= last.limit
    /\ \A k \in DOMAIN last.page : last.page[k].id \in Matching
    /\ \A j, k \in DOMAIN last.page : j < k => last.page[j].id > last.page[k].id
    /\ last.total = Cardinality(Matching)

\* C24: every aggregate of a List or ListByStatus page equals what Read of
\* its id returns; the page is ordered by creation time descending, holds at
\* most `limit` items, and the total is the number of matching root rows
\* whatever the offset.
C24_ListHydrated ==
    ListReturned =>
       /\ PagedAndCounted
       /\ \A k \in DOMAIN last.page :
             last.page[k] = Deref(GetByID(db, last.page[k].id))

\* What the two list calls return: paging and total as stated, and each
\* aggregate with its Configuration row, Schedule, Tags and Queries but
\* without the Configuration's sub-blocks and severities.
ListedShallow ==
    ListReturned =>
       /\ PagedAndCounted
       /\ \A k \in DOMAIN last.page :
             last.page[k] = Hydrate(db, db["alerts"][last.page[k].id], FALSE)

(***************************** concurrent transactions *********************)
\* Two connections run store transactions at the same time.  The tables are
\* InnoDB: a transaction reads the snapshot taken at its first SELECT, its
\* writes reach the others at COMMIT, and a row it has written stays locked
\* until then.

\* A transaction that never finds a row locked.
RowNeverLocked(w, id) == FALSE

\* Another connection is inside an Update transaction whose first statement,
\* UPDATE alerts .. WHERE id = ?, has locked the root row `id`.
RowLocked(w, id) ==
    \E v \in Workers \ {w} : pc[v] # "idle" /\ req[v].id = id

\* The tables after COMMIT of a transaction that read the snapshot `snap` and
\* left it as `res`, the committed tables being `cur` by now: its inserts,
\* deletes and changed rows applied to `cur`.
Merge(cur, snap, res) ==
    [ tbl \in Tables |->
        [ i \in (DOMAIN cur[tbl] \ (DOMAIN snap[tbl] \ DOMAIN res[tbl]))
                   \cup (DOMAIN res[tbl] \ DOMAIN snap[tbl]) |->
            IF i \in DOMAIN res[tbl] /\ (i \notin DOMAIN snap[tbl]
                                          \/ snap[tbl][i] # res[tbl][i])
            THEN res[tbl][i] ELSE cur[tbl][i] ] ]

\* CreateWithTransaction on one connection is PlainCreate: the root row it
\* inserts is new, no other transaction can see or lock it before COMMIT.

\* UpdateWithTransaction, BEGIN and step 1: the UPDATE of the root row waits
\* while another transaction holds the row.
UpdateBegin(w) ==
    \E id \in 1..MaxAlerts, shape \in StoreShapes :
       /\ pc[w] = "idle"
       /\ calls < MaxCalls
       /\ ~RowLocked(w, id)
       /\ pc' = [pc EXCEPT ![w] = "locked"]
       /\ req' = [req EXCEPT ![w] = Input(shape, "", id)]
       /\ calls' = calls + 1
       /\ UNCHANGED <<db, seq, last, sync>>

\* The first SELECT of the transaction (the Configuration's id, in
\* deleteConfigurationAssociations or updateConfiguration) fixes its snapshot.
UpdateRead(w) ==
    /\ pc[w] = "locked"
    /\ pc' = [pc EXCEPT ![w] = "read"]
    /\ req' = [req EXCEPT ![w] = [shape |-> req[w].shape, name |-> req[w].name,
                                  id |-> req[w].id, snap |-> db]]
    /\ UNCHANGED <<db, seq, calls, last, sync>>

\* The remaining statements and COMMIT, or ROLLBACK on an error.
UpdateCommitted(w, r) ==
    /\ db' = IF r.err THEN db ELSE Merge(db, req[w].snap, r.db)
    /\ seq' = IF r.err THEN seq ELSE r.seq
    /\ last' = Outcome("update", Input(req[w].shape, req[w].name, req[w].id), r)
    /\ pc' = [pc EXCEPT ![w] = "idle"]
    /\ req' = [req EXCEPT ![w] = Input(req[w].shape, req[w].name, req[w].id)]
    /\ UNCHANGED <<calls, sync>>

UpdateCommit(w) ==
    /\ pc[w] = "read"
    /\ UpdateCommitted(w, UpdateWithTransaction(req[w].snap, seq,
                                                Aggregate(req[w]), ""))

TxnNext ==
    \/ PlainCreate
    \/ \E w \in Workers : UpdateBegin(w) \/ UpdateRead(w) \/ UpdateCommit(w)

TxnSpec == Init /\ [][TxnNext]_vars

\* C25: every aggregate has at most one Configuration row and at most one
\* Schedule row, in every state reached by Creates and Updates, two Updates
\* of one aggregate running at the same time included.
C25_OneToOne ==
    \A id \in DOMAIN db["alerts"] :
       /\ Cardinality(OwnedBy(db, "alert_configurations", id)) <= 1
       /\ Cardinality(OwnedBy(db, "alert_schedules", id)) <= 1

\* Both connections have committed an Update of the same aggregate, each
\* supplying a Configuration and a Schedule; the aggregate was created
\* without either, and has one of each.
C25_Witness ==
    /\ \A w \in Workers : pc[w] = "idle" /\ req[w].shape \in { "full", "alt" }
    /\ \A v, w \in Workers : req[v].id = req[w].id
    /\ ~last.err /\ last.op = "update"
    /\ seq["alerts"] = 1 /\ seq["alert_schedules"] = 2
    /\ Cardinality(OwnedBy(db, "alert_configurations", last.in.id)) = 1
    /\ Cardinality(OwnedBy(db, "alert_schedules", last.in.id)) = 1

(***************************** carried keys ********************************)
\* The store called with aggregates that carry configuration_id and
\* schedule_id, as a request body may (models.Alert, json "configuration_id",
\* "schedule_id").
MaxRef == 2
Refs == { None } \cup { Some(k) : k \in 1..MaxRef }

\* The shapes sent with carried keys: no Schedule, with and without a
\* Configuration.
CarryShapes == { "bare", "cfgOnly" }

Carrying(shape, name, id, cfgRef, schRef) ==
    [ shape |-> shape, name |-> name, id |-> id,
      configurationID |-> cfgRef, scheduleID |-> schRef ]

\* models.Alert as decoded from a request that carries the two keys.
AggregateCarrying(in) ==
    [ Aggregate(in) EXCEPT !.configurationID = in.configurationID,
                           !.scheduleID = in.scheduleID ]

\* alertStore.CreateWithTransaction given carried keys.
CreateCarrying ==
    \E name \in Names, shape \in CarryShapes, cfgRef \in Refs, schRef \in Refs :
       /\ seq["alerts"] < MaxAlerts
       /\ Commit("create", Carrying(shape, name, 0, cfgRef, schRef), "",
                 CreateWithTransaction(db, seq,
                    AggregateCarrying(Carrying(shape, name, 0, cfgRef, schRef)), ""))

\* alertStore.UpdateWithTransaction given carried keys.
UpdateCarrying ==
    \E id \in 1..MaxAlerts, shape \in CarryShapes, cfgRef \in Refs, schRef \in Refs :
       Commit("update", Carrying(shape, "", id, cfgRef, schRef), "",
              UpdateWithTransaction(db, seq,
                 AggregateCarrying(Carrying(shape, "", id, cfgRef, schRef)), ""))

RefNext == PlainCreate \/ PlainUpdate \/ CreateCarrying \/ UpdateCarrying

RefSpec == Init /\ [][RefNext]_vars

\* The row a root's key refers to exists and belongs to that root.
RefersToOwn(d, root, col, tbl) ==
    IsNil(root[col])
    \/ /\ Deref(root[col]) \in DOMAIN d[tbl]
       /\ d[tbl][Deref(root[col])].alertID = root.id

\* C26: a root's configuration_id, when not null, is the key of an existing
\* Configuration row of that root, and its schedule_id likewise, also after
\* an Update given an aggregate that carries one of the keys and no
\* Configuration or Schedule.
C26_RootKeysOwn ==
    \A i \in DOMAIN db["alerts"] :
       /\ RefersToOwn(db, db["alerts"][i], "configurationID", "alert_configurations")
       /\ RefersToOwn(db, db["alerts"][i], "scheduleID", "alert_schedules")

\* What the foreign keys of the schema keep: the row referred to exists.
RootKeysExist ==
    \A i \in DOMAIN db["alerts"] :
       /\ IsNil(db["alerts"][i].configurationID)
             \/ Deref(db["alerts"][i].configurationID) \in DOMAIN db["alert_configurations"]
       /\ IsNil(db["alerts"][i].scheduleID)
             \/ Deref(db["alerts"][i].scheduleID) \in DOMAIN db["alert_schedules"]

(***************************** orphans *************************************)
\* The Configuration rows whose slot of sub-block b holds the key x.
SlotsHolding(d, b, x) ==
    { c \in DOMAIN d["alert_configurations"] :
         d["alert_configurations"][c][BlockSlot[b]] = Some(x) }

\* The severities whose eval condition is the row x.
SeveritiesHolding(d, x) ==
    { v \in DOMAIN d["severity_configurations"] :
         d["severity_configurations"][v].evalConditionID = Some(x) }

NoOrphans(d) ==
    /\ \A x \in DOMAIN d["condition_configurations"] :
          SlotsHolding(d, "conditionConfig", x) # {} \/ SeveritiesHolding(d, x) # {}
    /\ \A b \in DOMAIN BlockTables \ { "conditionConfig" } :
          \A x \in DOMAIN d[BlockTables[b]] :
             Cardinality(SlotsHolding(d, b, x)) = 1

RECURSIVE SubBlockRows(_, _)
SubBlockRows(d, bs) ==
    IF bs = << >> THEN 0
    ELSE Cardinality(DOMAIN d[BlockTables[Head(bs)]]) + SubBlockRows(d, Tail(bs))

\* An Update has committed right after a committed Update of the same
\* aggregate with the same body.
UpdatedAgain ==
    /\ Returned("update") /\ ~last'.err
    /\ last.op = "update" /\ ~last.err /\ last.in = last'.in

UpdateAgainAddsNothing ==
    UpdatedAgain => SubBlockRows(db', Blocks) <= SubBlockRows(db, Blocks)

\* C27: in the states reached by Create and Update, every Condition row is
\* referred to by a Configuration's condition slot or by a Severity, every
\* Group, Policy, Template and Sink row by exactly one Configuration slot,
\* and an Update repeated with the same aggregate adds no sub-block row.
C27_NoOrphans == [][NoOrphans(db') /\ UpdateAgainAddsNothing]_vars

\* The part that fails on Update alone, whatever Create did: the eval
\* conditions of replaced severities stay behind.
RepeatAddsNothing == [][UpdateAgainAddsNothing]_vars

(***************************** pull accounting *****************************)
\* The reconciliation calls under the scheduling of the handler's goroutine:
\* the loop of a running pull goes on to its next iteration and to its end.
\* An iteration is possible exactly when the loop has an item left, and it
\* always moves sync.i, so PullItemFair is WF_vars(PullItem) with ENABLED
\* <<PullItem>>_vars written out as PullItemEnabled.
PullItemEnabled == sync.phase = "pull" /\ sync.i < Len(sync.items)

PullItemFair == []<>(~PullItemEnabled) \/ []<><<PullItem>>_vars

SyncLiveSpec == SyncSpec /\ PullItemFair /\ WF_vars(PullFinish)

\* A pull has gone through its loop and returned.
PullDone == sync.phase = "done" /\ sync.ret.call = "pull" /\ sync.ret.kind # "list"

\* The iterations that ended as `op` without or with a failure.
Ended(op, failed) ==
    Cardinality({ k \in DOMAIN sync.issued :
                     /\ sync.issued[k].op = op
                     /\ (sync.issued[k].err # NoError) = failed })

\* The "Skipped" figure of the summary line.
Skipped == sync.syncedCount - sync.createdCount - sync.updatedCount

Accounted ==
    /\ Len(sync.issued) = Len(sync.items)
    /\ \A k \in DOMAIN sync.items : sync.issued[k].name = sync.items[k].name
    /\ sync.createdCount = Ended("create", FALSE)
    /\ sync.updatedCount = Ended("update", FALSE)
    /\ Skipped = Ended("skip", FALSE)
    /\ sync.failedCount = Ended("create", TRUE) + Ended("update", TRUE)
    /\ sync.createdCount + sync.updatedCount + Skipped + sync.failedCount
          = Len(sync.items)

\* C28: when a pull over n remote items finishes, every item has gone
\* through exactly one iteration, each iteration is counted as created,
\* updated, skipped or failed, and the four counts add up to n; a pull that
\* has its list always finishes.
C28_PullAccounting ==
    /\ [](PullDone => Accounted)
    /\ (sync.phase = "pull") ~> (sync.phase = "done")

\* A pull over three items has finished with one created, one skipped and
\* one failed.
C28_Witness ==
    /\ PullDone
    /\ Len(sync.items) = 3
    /\ sync.createdCount = 1 /\ Skipped = 1 /\ sync.failedCount = 1

(***************************** pull after pull *****************************)
\* A pull, then a second one against the same remote list.
RepullShapes == { "bare", "retitled", "unset" }

\* What GetAlerts may return here: alerts of distinct names in listing
\* order, every one with a lastModifiedTime.
RepullLists ==
    { l \in UNION { [1..n -> [ name : SyncNames, shape : RepullShapes ]] :
                       n \in 0..MaxBatch } :
        \A i, j \in DOMAIN l : i < j => Rank[l[i].name] < Rank[l[j].name] }

RepullInit == Init /\ sync.wired

\* SyncSLSToDatabase, lines 48-59, GetAlerts succeeding.
PullFirst ==
    /\ sync.phase = "idle"
    /\ sync.runs = 0
    /\ \E l \in RepullLists : sync' = StartBatch(sync, "pull", l)
    /\ UNCHANGED <<db, seq, calls, last, pc, req>>

\* The first pull has returned nil; SyncSLSToDatabase is called again and
\* GetAlerts returns the same list.  `last` keeps the tables as the first
\* pull left them.
PullAgain ==
    /\ sync.phase = "done"
    /\ sync.runs = 1
    /\ sync.ret.call = "pull" /\ ~sync.ret.err
    /\ sync' = StartBatch(sync, "pull", sync.items)
    /\ last' = [ op |-> "repull", err |-> FALSE, at |-> "", tx |-> FALSE,
                 in |-> Idle.in, id |-> 0, n |-> 1 - last.n, order |-> << >>,
                 before |-> db ]
    /\ UNCHANGED <<db, seq, calls, pc, req>>

RepullNext == LocalCreate \/ PullFirst \/ PullItem \/ PullFinish \/ PullAgain

RepullSpec == RepullInit /\ [][RepullNext]_vars

\* The second pull has returned.
Repulled == sync.phase = "done" /\ sync.runs = 2 /\ last.op = "repull"

\* The second pull issued no Create and no Update and the tables are as the
\* first pull left them.
NothingToDo ==
    /\ \A k \in DOMAIN sync.issued : sync.issued[k].op = "skip"
    /\ db = last.before

\* C29: after a pull that completed without failures over remote items that
\* all carry a lastModifiedTime, a second pull over the same items performs
\* no Create and no Update and leaves the local store as it was.
C29_PullConverges == Repulled => NothingToDo

\* The same for remote items that all carry a status.
ConvergesWithStatus ==
    (Repulled /\ \A k \in DOMAIN sync.items : Body(sync.items[k].shape).status # "")
       => NothingToDo

(***************************** what a push sends ***************************)
\* strings.Split(fields, ",") with each part trimmed, on the values the
\* aggregates here carry.
SplitFields(p) ==
    IF IsNil(p) THEN << >>
    ELSE IF Deref(p) = "f1,f2" THEN << "f1", "f2" >>
    ELSE << Deref(p) >>

\* The tags of a type, in order.
RECURSIVE OfType(_, _)
OfType(tags, ty) ==
    IF tags = << >> THEN << >>
    ELSE IF Head(tags).tagType = ty THEN << Head(tags) >> \o OfType(Tail(tags), ty)
    ELSE OfType(Tail(tags), ty)

\* slsConfig.Tags: the keys of the label tags.
SlsLabels(tags) ==
    [ i \in 1..Len(OfType(tags, "label")) |-> OfType(tags, "label")[i].tagKey ]

\* slsConfig.Annotations: key and value of the annotation tags.
SlsAnnotations(tags) ==
    [ i \in 1..Len(OfType(tags, "annotation")) |->
        [ key |-> OfType(tags, "annotation")[i].tagKey,
          value |-> OfType(tags, "annotation")[i].tagValue ] ]

\* slsConfig.QueryList
SlsQueries(qs) ==
    [ i \in 1..Len(qs) |->
        [ chartTitle |-> qs[i].chartTitle, dashboardId |-> qs[i].dashboardId,
          end |-> qs[i].end, powerSqlMode |-> qs[i].powerSqlMode,
          project |-> qs[i].project, query |-> qs[i].query,
          region |-> qs[i].region, roleArn |-> qs[i].roleArn,
          start |-> qs[i].start, store |-> qs[i].store,
          storeType |-> qs[i].storeType, timeSpanType |-> qs[i].timeSpanType,
          ui |-> qs[i].ui ] ]

SlsCondition(p) ==
    IF IsNil(p) THEN None
    ELSE Some([ condition |-> Deref(p).condition,
                countCondition |-> Deref(p).countCondition ])

SlsGroup(p) ==
    IF IsNil(p) THEN None
    ELSE Some([ fields |-> SplitFields(Deref(p).fields), type |-> Deref(p).type ])

SlsPolicy(p) ==
    IF IsNil(p) THEN None
    ELSE Some([ actionPolicyId |-> Deref(p).actionPolicyId,
                alertPolicyId |-> Deref(p).alertPolicyId,
                repeatInterval |-> Deref(p).repeatInterval ])

\* Aonotations and Tokens go through json.Unmarshal; the aggregates here
\* carry none.
SlsTemplate(p) ==
    IF IsNil(p) THEN None
    ELSE Some([ id |-> Deref(p).templateId, lang |-> Deref(p).lang,
                type |-> Deref(p).type, version |-> Deref(p).version,
                aonotations |-> Deref(p).aonotations, tokens |-> Deref(p).tokens ])

SlsSink(p) ==
    IF IsNil(p) THEN None ELSE Some([ enabled |-> Deref(p).enabled ])

SlsSinkEventStore(p) ==
    IF IsNil(p) THEN None
    ELSE Some([ enabled |-> Deref(p).enabled, endpoint |-> Deref(p).endpoint,
                eventStore |-> Deref(p).eventStore, project |-> Deref(p).project,
                roleArn |-> Deref(p).roleArn ])

\* sls20201230.AlertConfiguration built from Configuration c, the tags, the
\* queries and the severity and join collections given.
SlsConfiguration(c, tags, queries, sevs, joins) ==
    [ autoAnnotation |-> c.autoAnnotation, dashboard |-> c.dashboard,
      muteUntil |-> c.muteUntil, noDataFire |-> c.noDataFire,
      noDataSeverity |-> c.noDataSeverity, threshold |-> c.threshold,
      type |-> c.type, version |-> c.version, sendResolved |-> c.sendResolved,
      conditionConfiguration |-> SlsCondition(c.conditionConfig),
      groupConfiguration |-> SlsGroup(c.groupConfig),
      policyConfiguration |-> SlsPolicy(c.policyConfig),
      templateConfiguration |-> SlsTemplate(c.templateConfig),
      queryList |-> SlsQueries(queries),
      tags |-> SlsLabels(tags),
      annotations |-> SlsAnnotations(tags),
      sinkAlerthub |-> SlsSink(c.sinkAlerthubConfig),
      sinkCms |-> SlsSink(c.sinkCmsConfig),
      sinkEventStore |-> SlsSinkEventStore(c.sinkEventStoreConfig),
      severityConfigurations |-> sevs,
      joinConfigurations |-> joins ]

SlsSchedule(p) ==
    IF IsNil(p) THEN None
    ELSE Some([ cronExpression |-> Deref(p).cronExpression, delay |-> Deref(p).delay,
                interval |-> Deref(p).interval,
                runImmediately |-> Deref(p).runImmediately,
                timeZone |-> Deref(p).timeZone, type |-> Deref(p).type ])

\* slsService.convertModelToSLSAlert: queries, tags and annotations are
\* converted inside the branch of a non-nil Configuration; SeverityConfigs
\* and JoinConfigs are not converted.
convertModelToSLSAlert(a) ==
    [ name |-> a.name, displayName |-> a.displayName,
      description |-> a.description, status |-> a.status,
      createTime |-> a.createTime, lastModifiedTime |-> a.lastModifiedTime,
      configuration |->
         IF IsNil(a.configuration) THEN None
         ELSE Some(SlsConfiguration(Deref(a.configuration), a.tags, a.queries,
                                    << >>, << >>)),
      schedule |-> SlsSchedule(a.schedule) ]

\* The CreateAlertRequest of slsService.CreateAlert.
CreateAlertRequest(a) ==
    [ call |-> "CreateAlert", name |-> a.name, displayName |-> a.displayName,
      description |-> a.description,
      configuration |-> convertModelToSLSAlert(a).configuration,
      schedule |-> convertModelToSLSAlert(a).schedule ]

\* The UpdateAlertRequest of slsService.UpdateAlert, sent under alert.Name.
UpdateAlertRequest(a) ==
    [ call |-> "UpdateAlert", name |-> a.name, displayName |-> a.displayName,
      description |-> a.description,
      configuration |-> convertModelToSLSAlert(a).configuration,
      schedule |-> convertModelToSLSAlert(a).schedule ]

\* One iteration of the loop of SyncDatabaseToSLS with what it sends:
\* dbAlert is an item of alertStore.List, the gateway finds the alert on the
\* remote side or not.
PushSend ==
    \E k \in DOMAIN List(db, 0, ListLimit), exists \in BOOLEAN :
       /\ calls < MaxCalls
       /\ calls' = calls + 1
       /\ last' = [ op |-> "push", err |-> FALSE, at |-> "", tx |-> FALSE,
                    in |-> Idle.in, id |-> List(db, 0, ListLimit)[k].id,
                    n |-> 1 - last.n, order |-> << >>,
                    sent |-> IF exists
                             THEN UpdateAlertRequest(List(db, 0, ListLimit)[k])
                             ELSE CreateAlertRequest(List(db, 0, ListLimit)[k]) ]
       /\ UNCHANGED <<db, seq, pc, req, sync>>

\* The store written by Creates and Updates that meet no fault; a push
\* iteration sends one of the listed aggregates.
SendNext == PlainCreate \/ PlainUpdate \/ PushSend

SendSpec == Init /\ [][SendNext]_vars

\* The stored sub-block that slot b of Configuration row cfg refers to.
StoredBlock(d, cfg, b) == BelongsTo(d, BlockTables[b], cfg[BlockSlot[b]])

\* The stored severities of a Configuration, each with its eval condition,
\* and its stored joins, in the remote form.
StoredSeverities(d, cfgID) ==
    [ i \in 1..Len(RowsOfConfig(d, "severity_configurations", cfgID)) |->
        [ severity |-> RowsOfConfig(d, "severity_configurations", cfgID)[i].severity,
          evalCondition |->
             SlsCondition(BelongsTo(d, "condition_configurations",
                RowsOfConfig(d, "severity_configurations", cfgID)[i].evalConditionID)) ] ]

StoredJoins(d, cfgID) ==
    [ i \in 1..Len(RowsOfConfig(d, "join_configurations", cfgID)) |->
        [ type |-> RowsOfConfig(d, "join_configurations", cfgID)[i].joinType,
          condition |-> RowsOfConfig(d, "join_configurations", cfgID)[i].joinConfig ] ]

\* A Configuration with every scalar and sub-block nil.
NoConfiguration ==
    [ autoAnnotation |-> None, dashboard |-> None, muteUntil |-> None,
      noDataFire |-> None, noDataSeverity |-> None, threshold |-> None,
      type |-> None, version |-> None, sendResolved |-> None ] @@ NoBlocks

\* The stored Configuration of an alert with its seven sub-blocks.
StoredConfiguration(d, id) ==
    IF IsNil(FirstConfigID(d, id)) THEN NoConfiguration
    ELSE [ b \in DOMAIN BlockTables |-> StoredBlock(d, ConfigRowOf(d, id), b) ]
         @@ ConfigRowOf(d, id)

\* The remote form of everything stored for alert id: the Configuration's
\* scalars, sub-blocks, severities and joins, the queries, the labels and
\* annotations, and the schedule.  Queries and tags travel in the remote
\* Configuration, so there is one whenever the alert has any of them.
WholeConfiguration(d, id) ==
    IF /\ IsNil(FirstConfigID(d, id))
       /\ OwnedBy(d, "alert_tags", id) = {}
       /\ OwnedBy(d, "alert_queries", id) = {}
    THEN None
    ELSE Some(SlsConfiguration(
                 StoredConfiguration(d, id),
                 HasMany(d, "alert_tags", OwnedBy(d, "alert_tags", id)),
                 HasMany(d, "alert_queries", OwnedBy(d, "alert_queries", id)),
                 IF IsNil(FirstConfigID(d, id)) THEN << >>
                 ELSE StoredSeverities(d, Deref(FirstConfigID(d, id))),
                 IF IsNil(FirstConfigID(d, id)) THEN << >>
                 ELSE StoredJoins(d, Deref(FirstConfigID(d, id)))))

WholeSchedule(d, id) ==
    IF OwnedBy(d, "alert_schedules", id) = {} THEN None
    ELSE SlsSchedule(Some(d["alert_schedules"]
                             [SortedIds(OwnedBy(d, "alert_schedules", id))[1]]))

\* A push iteration has just sent a request.
Sent == last.op = "push"

\* C30: what a push sends for an aggregate equals the stored aggregate field
\* for field: display name, description, the Configuration's scalars, its
\* seven sub-blocks, severities and joins, the schedule, labels, annotations
\* and queries, also for an aggregate with tags or queries and no
\* Configuration.
C30_PushWhole ==
    Sent =>
       /\ last.sent.name = db["alerts"][last.id].name
       /\ last.sent.displayName = db["alerts"][last.id].displayName
       /\ last.sent.description = db["alerts"][last.id].description
       /\ last.sent.configuration = WholeConfiguration(db, last.id)
       /\ last.sent.schedule = WholeSchedule(db, last.id)

\* What a push does send: name, display name, description, the schedule,
\* and, for an aggregate with a Configuration row, that row's scalars with
\* the queries, label keys and annotations; no sub-block, severity or join.
SentShallow ==
    Sent =>
       /\ last.sent.name = db["alerts"][last.id].name
       /\ last.sent.displayName = db["alerts"][last.id].displayName
       /\ last.sent.description = db["alerts"][last.id].description
       /\ last.sent.schedule = WholeSchedule(db, last.id)
       /\ last.sent.configuration =
             IF IsNil(db["alerts"][last.id].configurationID) THEN None
             ELSE Some(SlsConfiguration(
                    NoBlocks @@ ConfigRowOf(db, last.id),
                    HasMany(db, "alert_tags", OwnedBy(db, "alert_tags", last.id)),
                    HasMany(db, "alert_queries", OwnedBy(db, "alert_queries", last.id)),
                    << >>, << >>))

\* The claim's last case on its own: an aggregate with tags or queries and
\* no Configuration is sent with them.
TagsSentWithoutConfiguration ==
    (Sent /\ IsNil(FirstConfigID(db, last.id))
          /\ OwnedBy(db, "alert_tags", last.id) # {})
       => ~IsNil(last.sent.configuration)

====
